---- MODULE Spec2Model ----
(***************************************************************************)
(* Scoring and advisory core of the stock scoring advisor:                 *)
(*   modules/technical.py    analyze_technical                             *)
(*   modules/fundamental.py  analyze_fundamental                           *)
(*   modules/news.py         analyze_sentiment                             *)
(*   modules/scoring.py      calculate_overall_score                       *)
(*   modules/advisory.py     get_investment_advice                         *)
(* with the indicator calculation that feeds the Technical Scorer          *)
(* (modules/technical.py calculate_technical_indicators), the ticker       *)
(* validator (utils/helpers.py validate_ticker) and the run of the page    *)
(* script that chains them (dashboard.py).                                 *)
(*                                                                         *)
(* Numbers.  Python floats are modelled as exact decimals on a fixed grid: *)
(* the integer n stands for the real n / One, and D(c) is the decimal      *)
(* c / 100.  The grid is fine enough that the mean of up to MaxArticles    *)
(* two-decimal compounds is again on the grid.  Every constant the scorers *)
(* add (0.25, 0.5, 0.75, 1.0) is a dyadic rational, so the float sums of   *)
(* the scorers are exact and agree with the model.                         *)
(*                                                                         *)
(* Values.  A Python value is a tagged tuple: <<"num", n>> (a float),      *)
(* <<"int", k>> (the int k), <<"bool", b>>,                                *)
(* <<"none">> (None), <<"str">> (a non-numeric string), <<"dict", f>>      *)
(* (f maps every key name to its value or to <<"absent">> when the key is  *)
(* not in the dict), <<"list", s>>, <<"nan">> (the float nan) and          *)
(* <<"raise">> for a call that ends with an exception.                     *)
(***************************************************************************)
EXTENDS Integers, Sequences, FiniteSets, TLC

VARIABLES pc, technical_indicators, fundamental_data, news_articles,
          news_sentiment, technical_score, fundamental_score,
          sentiment_score, overall_score, advice,
          stock_data, ticker_input, submit_button, ticker_info, is_valid,
          shown, calls

\* the form of the page, the validation of its ticker and what is displayed
form == <<ticker_input, submit_button, ticker_info, is_valid, shown>>

vars == <<pc, technical_indicators, fundamental_data, news_articles,
          news_sentiment, technical_score, fundamental_score,
          sentiment_score, overall_score, advice, stock_data, form, calls>>

(***************************************************************************)
(* Bounds and the number grid                                              *)
(***************************************************************************)
MaxArticles == 3

RECURSIVE Gcd(_, _)
Gcd(a, b) == IF b = 0 THEN a ELSE Gcd(b, a % b)

RECURSIVE LcmUpTo(_)
LcmUpTo(n) == IF n <= 1 THEN 1 ELSE (LcmUpTo(n - 1) * n) \div Gcd(LcmUpTo(n - 1), n)

\* grid steps per 0.01: a thousandth is on the grid, and so is
\* sum(compounds) / len(compounds) for up to MaxArticles two-decimal compounds
Cent == 10 * LcmUpTo(MaxArticles)
One == 100 * Cent
D(c) == c * Cent

(***************************************************************************)
(* Python values                                                           *)
(***************************************************************************)
Absent == <<"absent">>
None == <<"none">>
Str == <<"str">>
Num(n) == <<"num", n>>
PyInt(k) == <<"int", k>>
Bool(b) == <<"bool", b>>
Dict(f) == <<"dict", f>>
List(s) == <<"list", s>>
\* an exception that leaves a function with no try block
Raised == <<"raise">>

\* float('nan'): a number, every comparison with it is false
NaN == <<"nan">>

Tag(v) == v[1]
IsNum(v) == Tag(v) \in {"num", "int", "bool", "nan"}
IsNaN(v) == Tag(v) = "nan"
\* the number on the grid; bool is a subclass of int: True is 1, False is 0
NumVal(v) ==
    CASE Tag(v) = "bool" -> (IF v[2] THEN One ELSE 0)
      [] Tag(v) = "int"  -> v[2] * One
      [] Tag(v) = "num"  -> v[2]

\* d.get(k, default)
Get(d, k, default) == IF Tag(d[2][k]) = "absent" THEN default ELSE d[2][k]
Has(d, k) == Tag(d[2][k]) # "absent"

\* truth value of a Python object (bool(v))
Truthy(v) ==
    CASE Tag(v) = "bool" -> v[2]
      [] Tag(v) = "num"  -> v[2] # 0
      [] Tag(v) = "int"  -> v[2] # 0
      [] Tag(v) = "nan"  -> TRUE
      [] Tag(v) = "none" -> FALSE
      [] Tag(v) = "str"  -> TRUE
      [] Tag(v) = "dict" -> \E k \in DOMAIN v[2] : Tag(v[2][k]) # "absent"
      [] Tag(v) = "list" -> Len(v[2]) > 0

Min(a, b) == IF b < a THEN b ELSE a
Max(a, b) == IF b > a THEN b ELSE a
Abs(a) == IF a < 0 THEN -a ELSE a
\* x * y for grid numbers (exact on the inputs used)
Mul(a, b) == (a * b) \div One

(***************************************************************************)
(* modules/technical.py: analyze_technical                                 *)
(***************************************************************************)
TechKeys == {"rsi", "adx", "recent_performance", "is_uptrend", "is_overbought",
             "is_oversold", "macd_bullish_cross", "macd_bearish_cross",
             "near_support", "near_resistance", "strong_trend", "high_volume"}

\* the comparisons and min/abs of the try block raise TypeError on a
\* value that is not a number
TechnicalRaises(ti) ==
    \/ ~IsNum(Get(ti, "rsi", Num(D(5000))))
    \/ ~IsNum(Get(ti, "adx", Num(0)))
    \/ ~IsNum(Get(ti, "recent_performance", Num(0)))

\* the RSI rule with the comparisons <= 30 and >= 70 of the advisor
RsiAdjInclusive(ti) ==
    LET rsi == Get(ti, "rsi", Num(D(5000)))
    IN  IF IsNaN(rsi) THEN 0
        ELSE IF NumVal(rsi) <= D(3000) THEN D(100)
        ELSE IF NumVal(rsi) >= D(7000) THEN -D(100)
        ELSE 0

RsiAdj(ti) ==
    LET rsi == Get(ti, "rsi", Num(D(5000)))
    IN  IF IsNaN(rsi) THEN 0
        ELSE IF NumVal(rsi) < D(3000) THEN D(100)
        ELSE IF NumVal(rsi) > D(7000) THEN -D(100)
        ELSE 0

MacdAdj(ti) ==
    (IF Truthy(Get(ti, "macd_bullish_cross", Bool(FALSE))) THEN D(100) ELSE 0)
    + (IF Truthy(Get(ti, "macd_bearish_cross", Bool(FALSE))) THEN -D(100) ELSE 0)

\* the trend rule with no adjustment for a missing is_uptrend
TrendAdjMissingNeutral(ti) ==
    IF ~Has(ti, "is_uptrend") THEN 0
    ELSE IF Truthy(Get(ti, "is_uptrend", Bool(FALSE))) THEN D(75) ELSE -D(75)

TrendAdj(ti) ==
    IF Truthy(Get(ti, "is_uptrend", Bool(FALSE))) THEN D(75) ELSE -D(75)

SupportAdj(ti) ==
    (IF Truthy(Get(ti, "near_support", Bool(FALSE))) THEN D(50) ELSE 0)
    + (IF Truthy(Get(ti, "near_resistance", Bool(FALSE))) THEN -D(50) ELSE 0)

AdxAdj(ti) ==
    LET adx == Get(ti, "adx", Num(0))
    IN  IF ~IsNaN(adx) /\ NumVal(adx) > D(2500)
        THEN (IF Truthy(Get(ti, "is_uptrend", Bool(FALSE))) THEN D(50) ELSE -D(50))
        ELSE 0

\* recent_perf > 0 is false for nan and min(abs(nan), 2) is nan: the score
\* becomes nan, min(nan, 10) is nan and max(0, nan) is 0
ScoreIsNaN(ti) == IsNaN(Get(ti, "recent_performance", Num(0)))

\* the performance rule without the cap of 2 on the performance
PerfAdjUncapped(ti) ==
    LET recent_perf == NumVal(Get(ti, "recent_performance", Num(0)))
    IN  IF recent_perf > 0
        THEN Mul(D(25), recent_perf)
        ELSE -Mul(D(25), Abs(recent_perf))

PerfAdj(ti) ==
    LET recent_perf == NumVal(Get(ti, "recent_performance", Num(0)))
    IN  IF recent_perf > 0
        THEN Mul(D(25), Min(recent_perf, D(200)))
        ELSE -Mul(D(25), Min(Abs(recent_perf), D(200)))

VolumeAdj(ti) ==
    IF Truthy(Get(ti, "high_volume", Bool(FALSE)))
    THEN (IF Truthy(Get(ti, "is_uptrend", Bool(FALSE))) THEN D(50) ELSE -D(50))
    ELSE 0

\* the score before the final clamp
TechnicalSum(ti) ==
    D(500) + RsiAdj(ti) + MacdAdj(ti) + TrendAdj(ti) + SupportAdj(ti)
    + AdxAdj(ti) + PerfAdj(ti) + VolumeAdj(ti)

\* the clamp without its upper end
ClampNoUpper(score) == Max(0, score)

\* max(0, min(score, 10))
Clamp(score) == Max(0, Min(score, D(1000)))

\* the scorer with the neutral default for an empty indicator set
analyze_technical_neutral_empty(ti) ==
    IF ~Truthy(ti) THEN Num(D(500))
    ELSE IF TechnicalRaises(ti) THEN Num(D(500))
    ELSE IF ScoreIsNaN(ti) THEN Num(0)
    ELSE Num(Clamp(TechnicalSum(ti)))

analyze_technical(ti) ==
    IF ~Truthy(ti) THEN Num(0)
    ELSE IF TechnicalRaises(ti) THEN Num(D(500))
    ELSE IF ScoreIsNaN(ti) THEN Num(0)
    ELSE Num(Clamp(TechnicalSum(ti)))

(***************************************************************************)
(* modules/technical.py: calculate_technical_indicators                    *)
(*                                                                         *)
(* A price series is a frame of the values the indicator library computes *)
(* for its last bars; the library is not part of the repository.  For a    *)
(* series with too few bars for a lookback window the library gives no     *)
(* series at all (None) or a series whose last value is nan, depending on  *)
(* the indicator and the number of bars.                                   *)
(***************************************************************************)
\* stock_data.empty
EmptyFrame == <<"empty_frame">>
IsEmpty(sd) == Tag(sd) = "empty_frame"
Frame(bars) == <<"frame", bars>>
FrameFields == {"rsi", "macd_prev", "macds_prev", "macd", "macds", "ma_short",
                "ma_long", "close", "lower_band", "upper_band", "atr", "adx",
                "recent_performance", "volume", "volume_ma"}

\* a > b and a < b on floats: false when either side is nan
Gt(a, b) == ~IsNaN(a) /\ ~IsNaN(b) /\ NumVal(a) > NumVal(b)
Lt(a, b) == ~IsNaN(a) /\ ~IsNaN(b) /\ NumVal(a) < NumVal(b)

\* an indicator the library returned None for: the column is None or is
\* missing after pd.concat, and reading or comparing it raises
IndicatorsRaise(bars) == \E k \in FrameFields : Tag(bars[k]) = "none"

\* lines 69-70: (last_close - band) / last_close < 0.03, for a positive close
WithinThreePercent(gap_from, gap_to, last_close) ==
    /\ ~IsNaN(gap_from) /\ ~IsNaN(gap_to)
    /\ (NumVal(gap_from) - NumVal(gap_to)) * 100 < 3 * NumVal(last_close)

\* lines 63-64 with the two comparisons joined by "or"
MacdBullCrossEither(bars) ==
    Lt(bars.macd_prev, bars.macds_prev) \/ Gt(bars.macd, bars.macds)

\* lines 63-64
MacdBullCross(bars) ==
    Lt(bars.macd_prev, bars.macds_prev) /\ Gt(bars.macd, bars.macds)

\* lines 65-66
MacdBearCross(bars) ==
    Gt(bars.macd_prev, bars.macds_prev) /\ Lt(bars.macd, bars.macds)

\* the keys read by the scorer and the advisor, of the twenty returned
calculate_technical_indicators(sd) ==
    IF IsEmpty(sd) THEN Dict([k \in TechKeys |-> Absent])
    ELSE IF IndicatorsRaise(sd[2]) THEN Dict([k \in TechKeys |-> Absent])
    ELSE
      LET bars == sd[2]
      IN  Dict([rsi |-> bars.rsi,
                adx |-> bars.adx,
                recent_performance |-> bars.recent_performance,
                is_uptrend |-> Bool(Gt(bars.ma_short, bars.ma_long)),
                is_overbought |-> Bool(Gt(bars.rsi, Num(D(7000)))),
                is_oversold |-> Bool(Lt(bars.rsi, Num(D(3000)))),
                macd_bullish_cross |-> Bool(MacdBullCross(bars)),
                macd_bearish_cross |-> Bool(MacdBearCross(bars)),
                near_support |->
                    Bool(WithinThreePercent(bars.close, bars.lower_band,
                                            bars.close)),
                near_resistance |->
                    Bool(WithinThreePercent(bars.upper_band, bars.close,
                                            bars.close)),
                strong_trend |-> Bool(Gt(bars.adx, Num(D(2500)))),
                high_volume |-> Bool(Gt(bars.volume, bars.volume_ma))])

(***************************************************************************)
(* modules/fundamental.py: analyze_fundamental                             *)
(***************************************************************************)
FundKeys == {"trailing_pe", "forward_pe", "price_to_book", "eps", "roe",
             "profit_margins", "dividend_yield", "debt_to_equity",
             "current_ratio", "quick_ratio", "beta"}

\* fundamental_data.get(k): None when the key is missing
Metric(fd, k) == Get(fd, k, None)
\* "x is not None"
Present(fd, k) == Tag(Metric(fd, k)) # "none"

\* a metric that is not None is compared with a number: TypeError unless
\* it is one; forward_pe is compared only when trailing_pe is not None
FundamentalRaises(fd) ==
    \/ \E k \in FundKeys \ {"forward_pe", "eps", "quick_ratio"} :
          Present(fd, k) /\ ~IsNum(Metric(fd, k))
    \/ /\ Present(fd, "forward_pe")
       /\ Present(fd, "trailing_pe")
       /\ ~IsNum(Metric(fd, "forward_pe"))

\* the P/E rule with "if pe:" for "if pe is not None"
PeAdjZeroAbsent(fd) ==
    LET pe == NumVal(Metric(fd, "trailing_pe"))
    IN  IF ~Present(fd, "trailing_pe") THEN 0
        ELSE IF pe = 0 THEN 0
        ELSE IF pe < 0 THEN -D(50)
        ELSE IF pe < D(1500) THEN D(100)
        ELSE IF pe > D(3000) THEN -D(50)
        ELSE 0

PeAdj(fd) ==
    LET pe == NumVal(Metric(fd, "trailing_pe"))
    IN  IF ~Present(fd, "trailing_pe") THEN 0
        ELSE IF pe < 0 THEN -D(50)
        ELSE IF pe < D(1500) THEN D(100)
        ELSE IF pe > D(3000) THEN -D(50)
        ELSE 0

ForwardPeAdj(fd) ==
    LET pe == NumVal(Metric(fd, "trailing_pe"))
        forward_pe == NumVal(Metric(fd, "forward_pe"))
    IN  IF ~(Present(fd, "forward_pe") /\ Present(fd, "trailing_pe")) THEN 0
        ELSE IF forward_pe < pe THEN D(50)
        ELSE IF forward_pe > pe THEN -D(50)
        ELSE 0

PbAdj(fd) ==
    LET pb == NumVal(Metric(fd, "price_to_book"))
    IN  IF ~Present(fd, "price_to_book") THEN 0
        ELSE IF pb < D(100) THEN D(75)
        ELSE IF pb > D(500) THEN -D(50)
        ELSE 0

RoeAdj(fd) ==
    LET roe == NumVal(Metric(fd, "roe"))
    IN  IF ~Present(fd, "roe") THEN 0
        ELSE IF roe > D(15) THEN D(100)
        ELSE IF roe < D(5) THEN -D(75)
        ELSE 0

MarginAdj(fd) ==
    LET profit_margins == NumVal(Metric(fd, "profit_margins"))
    IN  IF ~Present(fd, "profit_margins") THEN 0
        ELSE IF profit_margins > D(15) THEN D(75)
        ELSE IF profit_margins < D(5) THEN -D(50)
        ELSE 0

DividendAdj(fd) ==
    LET div_yield == NumVal(Metric(fd, "dividend_yield"))
    IN  IF ~Present(fd, "dividend_yield") THEN 0
        ELSE IF div_yield > D(4) THEN D(50)
        ELSE IF div_yield > 0 /\ div_yield < D(1) THEN -D(25)
        ELSE 0

DebtAdj(fd) ==
    LET debt_to_equity == NumVal(Metric(fd, "debt_to_equity"))
    IN  IF ~Present(fd, "debt_to_equity") THEN 0
        ELSE IF debt_to_equity > D(200) THEN -D(100)
        ELSE IF debt_to_equity < D(50) THEN D(75)
        ELSE 0

CurrentRatioAdj(fd) ==
    LET current_ratio == NumVal(Metric(fd, "current_ratio"))
    IN  IF ~Present(fd, "current_ratio") THEN 0
        ELSE IF current_ratio < D(100) THEN -D(75)
        ELSE IF current_ratio > D(200) THEN D(50)
        ELSE 0

BetaAdj(fd) ==
    LET beta == NumVal(Metric(fd, "beta"))
    IN  IF ~Present(fd, "beta") THEN 0
        ELSE IF beta > D(150) THEN -D(25)
        ELSE IF beta < D(80) THEN D(25)
        ELSE 0

\* the score before the final clamp
FundamentalSum(fd) ==
    D(500) + PeAdj(fd) + ForwardPeAdj(fd) + PbAdj(fd) + RoeAdj(fd)
    + MarginAdj(fd) + DividendAdj(fd) + DebtAdj(fd) + CurrentRatioAdj(fd)
    + BetaAdj(fd)

\* the scorer without its final clamp
analyze_fundamental_unclamped(fd) ==
    IF ~Truthy(fd) THEN Num(D(500))
    ELSE IF FundamentalRaises(fd) THEN Num(D(500))
    ELSE Num(FundamentalSum(fd))

analyze_fundamental(fd) ==
    IF ~Truthy(fd) THEN Num(D(500))
    ELSE IF FundamentalRaises(fd) THEN Num(D(500))
    ELSE Num(Clamp(FundamentalSum(fd)))

(***************************************************************************)
(* modules/news.py: analyze_sentiment                                      *)
(*                                                                         *)
(* An article is a record of its five fields (<<"absent">> for a key the   *)
(* article lacks) and of compound, the polarity in [-1, 1] that the        *)
(* external analyzer assigns to its title and description.                 *)
(***************************************************************************)
ArticleKeys == {"title", "description", "url", "published_at", "source"}
NewsKeys == {"articles", "average_sentiment", "sentiment_score", "positive",
             "negative", "neutral"}

\* the neutral summary with the score of an empty indicator set
NeutralSummaryZeroScore ==
    Dict([articles |-> List(<<>>), average_sentiment |-> PyInt(0),
          sentiment_score |-> Num(0), positive |-> PyInt(0),
          negative |-> PyInt(0), neutral |-> PyInt(0)])

\* the summary returned for no articles and on an internal error
NeutralSummary ==
    Dict([articles |-> List(<<>>), average_sentiment |-> PyInt(0),
          sentiment_score |-> Num(D(500)), positive |-> PyInt(0),
          negative |-> PyInt(0), neutral |-> PyInt(0)])

\* article['title'] ... article['source'] raise KeyError on a missing key
SentimentRaises(articles) ==
    \E i \in 1..Len(articles) : \E k \in ArticleKeys : Tag(articles[i][k]) = "absent"

\* the categories with strict comparisons
CategoryStrict(compound) ==
    IF compound > D(5) THEN "positive"
    ELSE IF compound < -D(5) THEN "negative"
    ELSE "neutral"

Category(compound) ==
    IF compound >= D(5) THEN "positive"
    ELSE IF compound <= -D(5) THEN "negative"
    ELSE "neutral"

ScoredArticle(article) ==
    [title |-> article.title, url |-> article.url,
     published_at |-> article.published_at, source |-> article.source,
     sentiment |-> Category(article.compound),
     sentiment_score |-> Num(article.compound)]

RECURSIVE SumSeq(_)
SumSeq(xs) == IF xs = <<>> THEN 0 ELSE xs[1] + SumSeq(Tail(xs))

CountCategory(articles, cat) ==
    Cardinality({i \in 1..Len(articles) : Category(articles[i].compound) = cat})

\* sum(compound_scores) / len(compound_scores) if compound_scores else 0
AverageSentiment(compound_scores) ==
    IF Len(compound_scores) > 0
    THEN Num(SumSeq(compound_scores) \div Len(compound_scores))
    ELSE PyInt(0)

\* the score without its offset
SentimentScoreNoOffset(avg_sentiment) == avg_sentiment * 5

\* 5 + (avg_sentiment * 5)
SentimentScore(avg_sentiment) == D(500) + avg_sentiment * 5

\* the summary of the articles that can be scored, the others skipped
analyze_sentiment_skip_malformed(na) ==
    IF ~Truthy(na) THEN NeutralSummary
    ELSE LET complete(a) == \A k \in ArticleKeys : Tag(a[k]) # "absent"
             articles == SelectSeq(na[2], complete)
             compound_scores == [i \in 1..Len(articles) |-> articles[i].compound]
             avg_sentiment == AverageSentiment(compound_scores)
         IN  Dict([articles |-> List([i \in 1..Len(articles) |->
                                        ScoredArticle(articles[i])]),
                   average_sentiment |-> avg_sentiment,
                   sentiment_score |-> Num(SentimentScore(NumVal(avg_sentiment))),
                   positive |-> PyInt(CountCategory(articles, "positive")),
                   negative |-> PyInt(CountCategory(articles, "negative")),
                   neutral |-> PyInt(CountCategory(articles, "neutral"))])

analyze_sentiment(na) ==
    IF ~Truthy(na) THEN NeutralSummary
    ELSE IF SentimentRaises(na[2]) THEN NeutralSummary
    ELSE LET articles == na[2]
             compound_scores == [i \in 1..Len(articles) |-> articles[i].compound]
             avg_sentiment == AverageSentiment(compound_scores)
         IN  Dict([articles |-> List([i \in 1..Len(articles) |->
                                        ScoredArticle(articles[i])]),
                   average_sentiment |-> avg_sentiment,
                   sentiment_score |-> Num(SentimentScore(NumVal(avg_sentiment))),
                   positive |-> PyInt(CountCategory(articles, "positive")),
                   negative |-> PyInt(CountCategory(articles, "negative")),
                   neutral |-> PyInt(CountCategory(articles, "neutral"))])

(***************************************************************************)
(* modules/scoring.py: calculate_overall_score                             *)
(*                                                                         *)
(* The weighted sum of three grid numbers need not be on the grid, so it   *)
(* is kept as the numerator of a fraction over One * One.  round(x, 1)     *)
(* rounds the binary float x: a weighted sum that is exactly halfway       *)
(* between two tenths as a decimal is stored slightly above or below the   *)
(* halfway point and goes either way (tie_up); every other sum is rounded  *)
(* to the nearest tenth.                                                   *)
(***************************************************************************)
TECHNICAL_WEIGHT == D(40)
FUNDAMENTAL_WEIGHT == D(40)
NEWS_SENTIMENT_WEIGHT == D(20)

\* the weighted sum with the fundamental and news weights exchanged
WeightedNumerSwapped(t, f, s) ==
    t * TECHNICAL_WEIGHT + f * NEWS_SENTIMENT_WEIGHT + s * FUNDAMENTAL_WEIGHT

\* weighted_score * One
WeightedNumer(t, f, s) ==
    t * TECHNICAL_WEIGHT + f * FUNDAMENTAL_WEIGHT + s * NEWS_SENTIMENT_WEIGHT

\* 0.1 as a numerator over One * One
TenthNumer == D(10) * One

\* round(weighted_score, 1)
RoundTenth(numer, tie_up) ==
    LET q == numer \div TenthNumer
        r == numer % TenthNumer
    IN  IF 2 * r < TenthNumer THEN q * D(10)
        ELSE IF 2 * r > TenthNumer THEN (q + 1) * D(10)
        ELSE IF tie_up THEN (q + 1) * D(10)
        ELSE q * D(10)

\* score * weight raises TypeError on None; the function has no handler
OverallRaises(t, f, s) == ~IsNum(t) \/ ~IsNum(f) \/ ~IsNum(s)

calculate_overall_score(t, f, s, tie_up) ==
    IF OverallRaises(t, f, s) THEN Raised
    ELSE Num(RoundTenth(WeightedNumer(NumVal(t), NumVal(f), NumVal(s)), tie_up))

(***************************************************************************)
(* modules/advisory.py: get_investment_advice                              *)
(***************************************************************************)
\* a BUY threshold that the score of an empty indicator set can reach
BUY_THRESHOLD_SIX == D(600)

BUY_THRESHOLD == D(700)
SELL_THRESHOLD == D(400)
HOLD_THRESHOLD == D(550)

AdviceKeys == {"recommendation", "rationale"}

\* the base recommendation with the DO NOTHING band tested before SELL
BaseRecommendationBandFirst(overall) ==
    IF overall >= BUY_THRESHOLD THEN "BUY"
    ELSE IF overall < HOLD_THRESHOLD THEN "DO NOTHING"
    ELSE IF overall <= SELL_THRESHOLD THEN "SELL"
    ELSE "HOLD"

\* the base recommendation without the DO NOTHING band
BaseRecommendationNoBand(overall) ==
    IF overall >= BUY_THRESHOLD THEN "BUY"
    ELSE IF overall <= SELL_THRESHOLD THEN "SELL"
    ELSE "HOLD"

\* lines 22-28
BaseRecommendation(overall) ==
    IF overall >= BUY_THRESHOLD THEN "BUY"
    ELSE IF overall <= SELL_THRESHOLD THEN "SELL"
    ELSE IF overall < HOLD_THRESHOLD THEN "DO NOTHING"
    ELSE "HOLD"

\* lines 34-43
ScoreLine(overall) ==
    IF overall >= D(850) THEN "Very strong overall performance metrics."
    ELSE IF overall >= D(700) THEN "Good overall performance metrics."
    ELSE IF overall <= D(300) THEN "Poor overall performance metrics."
    ELSE IF overall <= D(450) THEN "Below average performance metrics."
    ELSE "Average overall performance metrics."

\* lines 46-76
TechnicalLines(ti) ==
    IF ~Truthy(ti) THEN <<>>
    ELSE
      LET rsi == Get(ti, "rsi", Num(D(5000)))
          flag(k) == Truthy(Get(ti, k, Bool(FALSE)))
      IN  (IF IsNaN(rsi) THEN <<>>
           ELSE IF NumVal(rsi) <= D(3000)
             THEN <<"RSI indicates oversold conditions.">>
           ELSE IF NumVal(rsi) >= D(7000)
             THEN <<"RSI indicates overbought conditions.">>
           ELSE <<>>)
          \o
          (IF flag("macd_bullish_cross")
             THEN <<"Recent MACD bullish crossover suggests upward momentum.">>
           ELSE IF flag("macd_bearish_cross")
             THEN <<"Recent MACD bearish crossover suggests downward momentum.">>
           ELSE <<>>)
          \o
          (IF flag("is_uptrend")
             THEN (IF flag("strong_trend")
                     THEN <<"Strong uptrend in price action.">>
                     ELSE <<"Price is in an uptrend.">>)
             ELSE (IF flag("strong_trend")
                     THEN <<"Strong downtrend in price action.">>
                     ELSE <<"Price is in a downtrend.">>))
          \o
          (IF flag("near_support")
             THEN <<"Price is near support level, potential bounce point.">>
           ELSE IF flag("near_resistance")
             THEN <<"Price is near resistance level, may face selling pressure.">>
           ELSE <<>>)

\* lines 79-94
FundamentalLines(fd) ==
    IF ~Truthy(fd) THEN <<>>
    ELSE
      LET pe == NumVal(Metric(fd, "trailing_pe"))
          roe == NumVal(Metric(fd, "roe"))
      IN  (IF ~Present(fd, "trailing_pe") THEN <<>>
           ELSE IF pe < 0 THEN <<"Company has negative earnings (P/E).">>
           ELSE IF pe < D(1500)
             THEN <<"P/E ratio suggests stock may be undervalued.">>
           ELSE IF pe > D(3000)
             THEN <<"High P/E ratio may indicate overvaluation.">>
           ELSE <<>>)
          \o
          (IF ~Present(fd, "roe") THEN <<>>
           ELSE IF roe > D(15)
             THEN <<"Strong return on equity (ROE) indicates efficient use of capital.">>
           ELSE IF roe < D(5)
             THEN <<"Low return on equity (ROE) suggests inefficient use of capital.">>
           ELSE <<>>)

\* news_sentiment.get("average_sentiment", 0)
AvgSentiment(ns) == Get(ns, "average_sentiment", PyInt(0))

\* lines 97-106
SentimentLines(ns) ==
    IF ~Truthy(ns) THEN <<>>
    ELSE
      LET avg_sentiment == NumVal(AvgSentiment(ns))
      IN  IF avg_sentiment > D(20)
            THEN <<"Recent news sentiment is very positive.">>
          ELSE IF avg_sentiment > D(5)
            THEN <<"Recent news sentiment is positive.">>
          ELSE IF avg_sentiment < -D(20)
            THEN <<"Recent news sentiment is very negative.">>
          ELSE IF avg_sentiment < -D(5)
            THEN <<"Recent news sentiment is negative.">>
          ELSE <<>>

BuyLine == "Oversold conditions with positive news make this a potential buying opportunity."
SellLine == "Overbought conditions with negative news suggest taking profits."

\* the override guard without the fundamental data
OverridesApplyTechnicalOnly(ti, fd) == Truthy(ti)

\* line 109
OverridesApply(ti, fd) == Truthy(ti) /\ Truthy(fd)

\* the buy signal with the banding threshold 0.2 of the sentiment line
BuySignalVeryPositive(ti, ns) ==
    /\ Truthy(Get(ti, "is_oversold", Bool(FALSE)))
    /\ Truthy(Get(ti, "near_support", Bool(FALSE)))
    /\ Truthy(ns)
    /\ NumVal(AvgSentiment(ns)) > D(20)

\* lines 111-113
BuySignal(ti, ns) ==
    /\ Truthy(Get(ti, "is_oversold", Bool(FALSE)))
    /\ Truthy(Get(ti, "near_support", Bool(FALSE)))
    /\ Truthy(ns)
    /\ NumVal(AvgSentiment(ns)) > D(10)

\* the sell signal for any news sentiment
SellSignalAnySentiment(ti, ns) ==
    /\ Truthy(Get(ti, "is_overbought", Bool(FALSE)))
    /\ Truthy(Get(ti, "near_resistance", Bool(FALSE)))
    /\ Truthy(ns)

\* the sell signal with the banding threshold -0.2 of the sentiment line
SellSignalVeryNegative(ti, ns) ==
    /\ Truthy(Get(ti, "is_overbought", Bool(FALSE)))
    /\ Truthy(Get(ti, "near_resistance", Bool(FALSE)))
    /\ Truthy(ns)
    /\ NumVal(AvgSentiment(ns)) < -D(20)

\* lines 118-120
SellSignal(ti, ns) ==
    /\ Truthy(Get(ti, "is_overbought", Bool(FALSE)))
    /\ Truthy(Get(ti, "near_resistance", Bool(FALSE)))
    /\ Truthy(ns)
    /\ NumVal(AvgSentiment(ns)) < -D(10)

\* the comparisons raise TypeError on a value that is not a number
AdviceRaises(overall, ti, fd, ns) ==
    \/ ~IsNum(overall)
    \/ Truthy(ti) /\ ~IsNum(Get(ti, "rsi", Num(D(5000))))
    \/ Truthy(fd) /\ Present(fd, "trailing_pe") /\ ~IsNum(Metric(fd, "trailing_pe"))
    \/ Truthy(fd) /\ Present(fd, "roe") /\ ~IsNum(Metric(fd, "roe"))
    \/ Truthy(ns) /\ ~IsNum(AvgSentiment(ns))

\* the advice with the override line put in front of the commentary
get_investment_advice_override_first(overall_arg, ti, fd, ns) ==
    IF AdviceRaises(overall_arg, ti, fd, ns) THEN Raised
    ELSE
      LET overall == NumVal(overall_arg)
          commentary == <<ScoreLine(overall)>> \o TechnicalLines(ti)
                        \o FundamentalLines(fd) \o SentimentLines(ns)
          buy == OverridesApply(ti, fd) /\ BuySignal(ti, ns)
          sell == OverridesApply(ti, fd) /\ SellSignal(ti, ns)
      IN  Dict([recommendation |->
                    IF sell THEN "SELL"
                    ELSE IF buy THEN "BUY"
                    ELSE BaseRecommendation(overall),
                rationale |->
                    (IF buy THEN <<BuyLine>> ELSE <<>>)
                    \o (IF sell THEN <<SellLine>> ELSE <<>>)
                    \o commentary])

get_investment_advice(overall_arg, ti, fd, ns) ==
    IF AdviceRaises(overall_arg, ti, fd, ns) THEN Raised
    ELSE
      LET overall == NumVal(overall_arg)
          commentary == <<ScoreLine(overall)>> \o TechnicalLines(ti)
                        \o FundamentalLines(fd) \o SentimentLines(ns)
          buy == OverridesApply(ti, fd) /\ BuySignal(ti, ns)
          sell == OverridesApply(ti, fd) /\ SellSignal(ti, ns)
      IN  Dict([recommendation |->
                    IF sell THEN "SELL"
                    ELSE IF buy THEN "BUY"
                    ELSE BaseRecommendation(overall),
                rationale |->
                    commentary
                    \o (IF buy THEN <<BuyLine>> ELSE <<>>)
                    \o (IF sell THEN <<SellLine>> ELSE <<>>)])

(***************************************************************************)
(* utils/helpers.py: validate_ticker                                       *)
(*                                                                         *)
(* A ticker is <<"chars", s>> with s the sequence of its characters; the   *)
(* provider's answer to the info lookup is <<"info", "price">> (a price    *)
(* field is present), <<"info", "no_price">> or <<"info", "error">> (the   *)
(* lookup raises).                                                         *)
(***************************************************************************)
Chars(s) == <<"chars", s>>
Info(kind) == <<"info", kind>>
Display(what) == <<"display", what>>

\* str.strip(): leading and trailing blanks removed
RECURSIVE LStrip(_)
LStrip(s) == IF s # <<>> /\ Head(s) = " " THEN LStrip(Tail(s)) ELSE s

RECURSIVE RStrip(_)
RStrip(s) ==
    IF s # <<>> /\ s[Len(s)] = " " THEN RStrip(SubSeq(s, 1, Len(s) - 1)) ELSE s

Strip(s) == RStrip(LStrip(s))

\* str.upper() on the letters of the inputs
UpperChar(c) == IF c = "a" THEN "A" ELSE IF c = "z" THEN "Z" ELSE c
Upper(s) == [i \in 1..Len(s) |-> UpperChar(s[i])]

\* re.match(r'^[A-Z0-9\.\-]+$', ticker) on the characters of the inputs
TickerAlphabet == {"A", "Z", "0", "9", ".", "-"}
MatchesFormat(s) == Len(s) >= 1 /\ \A i \in 1..Len(s) : s[i] \in TickerAlphabet

\* the validator without the lookup of a price
validate_ticker_format_only(ticker, info) ==
    IF Len(ticker) = 0 THEN FALSE
    ELSE MatchesFormat(Upper(Strip(ticker)))

validate_ticker(ticker, info) ==
    IF Len(ticker) = 0 THEN FALSE
    ELSE IF ~MatchesFormat(Upper(Strip(ticker))) THEN FALSE
    ELSE IF info = Info("error") THEN FALSE
    ELSE info = Info("price")

(***************************************************************************)
(* Inputs of the scorers                                                   *)
(***************************************************************************)
FlagVals == {Absent, Bool(FALSE), Bool(TRUE)}
SetFlagVals == {Absent, Bool(TRUE)}
RsiVals == {Absent, Num(D(2000)), Num(D(8000))}
AdxVals == {Absent, Num(D(4000))}
PerfVals == {Absent, Num(-D(300)), Num(-D(148)), Num(D(48)), Num(D(300))}

\* dicts whose signals are numbers and booleans, every key optional
TechDicts ==
    { Dict([rsi |-> r, adx |-> a, recent_performance |-> p, is_uptrend |-> u,
            macd_bullish_cross |-> mb, macd_bearish_cross |-> ms,
            near_support |-> ns, near_resistance |-> nr, high_volume |-> hv,
            is_overbought |-> Absent, is_oversold |-> Absent,
            strong_trend |-> Absent]) :
        r \in RsiVals, a \in AdxVals, p \in PerfVals, u \in FlagVals,
        mb \in SetFlagVals, ms \in SetFlagVals, ns \in SetFlagVals,
        nr \in SetFlagVals, hv \in FlagVals }

EmptyTech == [k \in TechKeys |-> Absent]

\* one numeric signal at a threshold of its rule
EdgeTechDicts ==
    { Dict([EmptyTech EXCEPT ![k] = Num(v)]) :
        k \in {"rsi", "adx", "recent_performance"},
        v \in {-D(200), 0, D(200), D(2500), D(2600), D(2900), D(3000),
               D(7000), D(7100)} }

\* dicts holding a value of the wrong type, or only keys the scorer ignores
OddTechDicts ==
    { Dict([EmptyTech EXCEPT ![k] = v]) :
        k \in {"rsi", "adx", "recent_performance", "is_uptrend", "strong_trend"},
        v \in {None, Str, Bool(TRUE)} }

TechInputs == {None} \cup TechDicts \cup EdgeTechDicts \cup OddTechDicts

PeVals == {Absent, Num(-D(100)), Num(D(1000)), Num(D(3100))}
ForwardPeVals == {Absent, Num(-D(200)), Num(D(4000))}
PbVals == {Absent, Num(D(50)), Num(D(600))}
RoeVals == {Absent, Num(D(4)), Num(D(20))}
MarginVals == {Absent, Num(D(4)), Num(D(20))}
DividendVals == {Absent, Num(D(1) \div 2), Num(D(5))}
DebtVals == {Absent, Num(D(40)), Num(D(300))}
CurrentRatioVals == {Absent, Num(D(50)), Num(D(300))}
BetaVals == {Absent, Num(D(50)), Num(D(200))}

FundDicts ==
    { Dict([trailing_pe |-> pe, forward_pe |-> fpe, price_to_book |-> pb,
            roe |-> roe, profit_margins |-> pm, dividend_yield |-> dy,
            debt_to_equity |-> de, current_ratio |-> cr, beta |-> b,
            eps |-> Absent, quick_ratio |-> Absent]) :
        pe \in PeVals, fpe \in ForwardPeVals, pb \in PbVals, roe \in RoeVals,
        pm \in MarginVals, dy \in DividendVals, de \in DebtVals,
        cr \in CurrentRatioVals, b \in BetaVals }

EmptyFund == [k \in FundKeys |-> Absent]
\* get_fundamental_data stores every key, None for a metric the provider lacks
AllNoneFund == [k \in FundKeys |-> None]

\* one metric at a threshold of its rule (forward P/E next to an equal
\* trailing P/E)
EdgeFundDicts ==
    { Dict([EmptyFund EXCEPT ![k] = Num(v)]) :
        k \in FundKeys \ {"forward_pe"},
        v \in {0, D(1), D(4), D(5), D(15), D(50), D(80), D(100), D(150),
               D(200), D(500), D(1500), D(3000)} }
    \cup { Dict([EmptyFund EXCEPT !["trailing_pe"] = Num(D(2000)),
                                  !["forward_pe"] = Num(D(2000))]) }

OddFundDicts ==
    {Dict(AllNoneFund)} \cup
    { Dict([EmptyFund EXCEPT ![k] = v]) :
        k \in {"trailing_pe", "forward_pe", "roe", "beta", "eps"},
        v \in {None, Str, Bool(TRUE)} }

FundInputs == {None} \cup FundDicts \cup EdgeFundDicts \cup OddFundDicts

\* no form is processed when a function is called on its own
NoForm ==
    /\ ticker_input = None
    /\ submit_button = None
    /\ ticker_info = None
    /\ is_valid = None
    /\ shown = None

(***************************************************************************)
(* The scorers called on their own                                         *)
(***************************************************************************)
AnalyzeTechnical ==
    /\ pc = "analyze_technical"
    /\ technical_score' = analyze_technical(technical_indicators)
    /\ pc' = "done"
    /\ UNCHANGED <<technical_indicators, fundamental_data, news_articles,
                   news_sentiment, fundamental_score, sentiment_score,
                   overall_score, advice, calls>>
    /\ UNCHANGED <<stock_data, form, calls>>

AnalyzeFundamental ==
    /\ pc = "analyze_fundamental"
    /\ fundamental_score' = analyze_fundamental(fundamental_data)
    /\ pc' = "done"
    /\ UNCHANGED <<technical_indicators, fundamental_data, news_articles,
                   news_sentiment, technical_score, sentiment_score,
                   overall_score, advice, calls>>
    /\ UNCHANGED <<stock_data, form, calls>>

InitScorers ==
    /\ \/ /\ pc = "analyze_technical"
          /\ technical_indicators \in TechInputs
          /\ fundamental_data = None
       \/ /\ pc = "analyze_fundamental"
          /\ technical_indicators = None
          /\ fundamental_data \in FundInputs
    /\ news_articles = None
    /\ news_sentiment = None
    /\ technical_score = None
    /\ fundamental_score = None
    /\ sentiment_score = None
    /\ overall_score = None
    /\ advice = None
    /\ stock_data = None
    /\ NoForm
    /\ calls = <<>>

NextScorers == AnalyzeTechnical \/ AnalyzeFundamental

SpecScorers == InitScorers /\ [][NextScorers]_vars

(***************************************************************************)
(* Properties of the scorers                                               *)
(***************************************************************************)
TechnicalCalled == pc = "done" /\ Tag(technical_score) = "num"
FundamentalCalled == pc = "done" /\ Tag(fundamental_score) = "num"

\* C1: whatever signals or metrics are present, and also when every rule
\* fires in the same direction, analyze_technical and analyze_fundamental
\* return a score between 0 and 10.
C1_ScoresInRange ==
    /\ TechnicalCalled =>
          technical_score[2] >= 0 /\ technical_score[2] <= D(1000)
    /\ FundamentalCalled =>
          fundamental_score[2] >= 0 /\ fundamental_score[2] <= D(1000)

\* a record on which every rule adds: the sum is 11.0 and the result 10.0
C1_Witness ==
    /\ FundamentalCalled
    /\ fundamental_data \in FundDicts
    /\ FundamentalSum(fundamental_data) = D(1100)
    /\ fundamental_score = Num(D(1000))

\* C5: analyze_technical of an empty indicator set is exactly 0.0, while
\* analyze_fundamental of an empty or missing record is exactly 5.0.
C5_EmptyDefaults ==
    /\ (TechnicalCalled /\ technical_indicators = Dict(EmptyTech)) =>
          technical_score = Num(0)
    /\ (FundamentalCalled /\ fundamental_data \in {None, Dict(EmptyFund)}) =>
          fundamental_score = Num(D(500))

C5_Witness ==
    /\ TechnicalCalled
    /\ technical_indicators = Dict(EmptyTech)
    /\ technical_score = Num(0)

\* every signal is missing, a number or a boolean
FiniteTech(ti) ==
    /\ Truthy(ti)
    /\ \A k \in {"rsi", "adx", "recent_performance"} :
          Tag(ti[2][k]) \in {"absent", "num"}
    /\ \A k \in TechKeys \ {"rsi", "adx", "recent_performance"} :
          Tag(ti[2][k]) \in {"absent", "bool"}

\* C15: for a non-empty indicator set of finite values analyze_technical
\* returns, clamped to [0, 10], 5.0 plus: rsi < 30 +1.0, rsi > 70 -1.0 (rsi
\* defaults to 50); bullish cross +1.0; bearish cross -1.0; uptrend +0.75,
\* false or missing -0.75; near support +0.5; near resistance -0.5;
\* adx > 25 +0.5 in an uptrend else -0.5; recent performance p > 0
\* +0.25 * min(p, 2), else -0.25 * min(|p|, 2); high volume +0.5 in an
\* uptrend else -0.5.
C15_TechnicalRules ==
    (TechnicalCalled /\ FiniteTech(technical_indicators)) =>
        LET ti == technical_indicators[2]
            num(k, d) == IF Tag(ti[k]) = "absent" THEN d ELSE ti[k][2]
            on(k) == Tag(ti[k]) = "bool" /\ ti[k][2]
            rsi == num("rsi", D(5000))
            adx == num("adx", 0)
            p == num("recent_performance", 0)
            dir == IF on("is_uptrend") THEN 1 ELSE -1
            sum == D(500)
                   + (IF rsi < D(3000) THEN D(100) ELSE 0)
                   - (IF rsi > D(7000) THEN D(100) ELSE 0)
                   + (IF on("macd_bullish_cross") THEN D(100) ELSE 0)
                   - (IF on("macd_bearish_cross") THEN D(100) ELSE 0)
                   + dir * D(75)
                   + (IF on("near_support") THEN D(50) ELSE 0)
                   - (IF on("near_resistance") THEN D(50) ELSE 0)
                   + (IF adx > D(2500) THEN dir * D(50) ELSE 0)
                   + (IF p > 0 THEN (IF p < D(200) THEN p ELSE D(200)) \div 4
                      ELSE -((IF -p < D(200) THEN -p ELSE D(200)) \div 4))
                   + (IF on("high_volume") THEN dir * D(50) ELSE 0)
        IN  technical_score[2] =
              (IF sum < 0 THEN 0 ELSE IF sum > D(1000) THEN D(1000) ELSE sum)

\* oversold, strong trend and high volume with is_uptrend missing:
\* 5 + 1 - 0.75 - 0.5 + 0.12 - 0.5
C15_Witness ==
    /\ TechnicalCalled
    /\ FiniteTech(technical_indicators)
    /\ technical_indicators[2].rsi = Num(D(2000))
    /\ technical_indicators[2].adx = Num(D(4000))
    /\ technical_indicators[2].recent_performance = Num(D(48))
    /\ technical_indicators[2].high_volume = Bool(TRUE)
    /\ ~Has(technical_indicators, "is_uptrend")
    /\ technical_score = Num(D(437))

\* every metric is missing, None or a number
FiniteFund(fd) ==
    /\ Truthy(fd)
    /\ \A k \in FundKeys : Tag(fd[2][k]) \in {"absent", "none", "num"}

\* C16: for a non-empty record analyze_fundamental returns, clamped to
\* [0, 10], 5.0 plus the adjustments of the metrics that are present; an
\* absent metric adds 0 and a metric that is 0 is scored by its rule.
\* Trailing P/E < 0 -0.5, else < 15 +1.0, else > 30 -0.5; forward below
\* trailing P/E +0.5, above -0.5; price/book < 1 +0.75, > 5 -0.5;
\* ROE > 0.15 +1.0, < 0.05 -0.75; margin > 0.15 +0.75, < 0.05 -0.5;
\* dividend yield > 0.04 +0.5, in (0, 0.01) -0.25; debt/equity > 2 -1.0,
\* < 0.5 +0.75; current ratio < 1 -0.75, > 2 +0.5; beta > 1.5 -0.25,
\* < 0.8 +0.25.  A record with every metric absent scores 5.0.
C16_FundamentalRules ==
    (FundamentalCalled /\ FiniteFund(fundamental_data)) =>
        LET fd == fundamental_data[2]
            has(k) == Tag(fd[k]) = "num"
            v(k) == fd[k][2]
            rule(k, below, low, above, high) ==
                IF ~has(k) THEN 0
                ELSE IF v(k) < below THEN low
                ELSE IF v(k) > above THEN high
                ELSE 0
            sum == D(500)
                   + (IF ~has("trailing_pe") THEN 0
                      ELSE IF v("trailing_pe") < 0 THEN -D(50)
                      ELSE IF v("trailing_pe") < D(1500) THEN D(100)
                      ELSE IF v("trailing_pe") > D(3000) THEN -D(50)
                      ELSE 0)
                   + (IF ~(has("forward_pe") /\ has("trailing_pe")) THEN 0
                      ELSE IF v("forward_pe") < v("trailing_pe") THEN D(50)
                      ELSE IF v("forward_pe") > v("trailing_pe") THEN -D(50)
                      ELSE 0)
                   + rule("price_to_book", D(100), D(75), D(500), -D(50))
                   + rule("roe", D(5), -D(75), D(15), D(100))
                   + rule("profit_margins", D(5), -D(50), D(15), D(75))
                   + (IF ~has("dividend_yield") THEN 0
                      ELSE IF v("dividend_yield") > D(4) THEN D(50)
                      ELSE IF v("dividend_yield") > 0 /\ v("dividend_yield") < D(1)
                        THEN -D(25)
                      ELSE 0)
                   + rule("debt_to_equity", D(50), D(75), D(200), -D(100))
                   + rule("current_ratio", D(100), -D(75), D(200), D(50))
                   + rule("beta", D(80), D(25), D(150), -D(25))
        IN  /\ fundamental_score[2] =
                 (IF sum < 0 THEN 0 ELSE IF sum > D(1000) THEN D(1000) ELSE sum)
            /\ (\A k \in FundKeys : ~has(k)) => fundamental_score[2] = D(500)

\* a trailing P/E of 0 is present and scored as a P/E below 15
C16_Witness ==
    /\ FundamentalCalled
    /\ fundamental_data = Dict([EmptyFund EXCEPT !["trailing_pe"] = Num(0)])
    /\ fundamental_score = Num(D(600))

\* C25: for a non-empty indicator set of finite values the technical sum
\* before the clamp lies in [0.25, 9.75], so the clamp changes nothing and
\* neither 0 nor 10 is returned; the fundamental sum lies in [0.0, 11.0],
\* so analyze_fundamental differs from its sum only above 10.
C25_ClampBinding ==
    /\ (TechnicalCalled /\ FiniteTech(technical_indicators)) =>
          /\ TechnicalSum(technical_indicators) >= D(25)
          /\ TechnicalSum(technical_indicators) <= D(975)
          /\ technical_score = Num(TechnicalSum(technical_indicators))
          /\ technical_score[2] # 0
          /\ technical_score[2] # D(1000)
    /\ (FundamentalCalled /\ FiniteFund(fundamental_data)) =>
          /\ FundamentalSum(fundamental_data) >= 0
          /\ FundamentalSum(fundamental_data) <= D(1100)
          /\ fundamental_score[2] # FundamentalSum(fundamental_data) =>
                (/\ FundamentalSum(fundamental_data) > D(1000)
                 /\ fundamental_score[2] = D(1000))

\* every technical rule subtracts: 5 - 4.75
C25_Witness ==
    /\ TechnicalCalled
    /\ FiniteTech(technical_indicators)
    /\ technical_indicators[2].rsi = Num(D(8000))
    /\ technical_indicators[2].macd_bearish_cross = Bool(TRUE)
    /\ ~Has(technical_indicators, "macd_bullish_cross")
    /\ TechnicalSum(technical_indicators) = D(25)
    /\ technical_score = Num(D(25))

(***************************************************************************)
(* analyze_sentiment called on its own                                     *)
(***************************************************************************)
CompoundVals == {-D(100), -D(50), -D(5), 0, D(4), D(5), D(50), D(100)}

Article(c) ==
    [title |-> Str, description |-> Str, url |-> Str, published_at |-> Str,
     source |-> Str, compound |-> c]

\* articles of get_news, and articles with a key missing or a None title
ArticleVals ==
    { Article(c) : c \in CompoundVals }
    \cup { [Article(D(50)) EXCEPT !.title = None],
           [Article(D(50)) EXCEPT !.description = Absent],
           [Article(-D(50)) EXCEPT !.url = Absent] }

ArticleLists ==
    UNION { [1..n -> ArticleVals] : n \in 0..MaxArticles }

NewsInputs == {None} \cup { List(s) : s \in ArticleLists }

AnalyzeSentiment ==
    /\ pc = "analyze_sentiment"
    /\ news_sentiment' = analyze_sentiment(news_articles)
    /\ pc' = "done"
    /\ UNCHANGED <<technical_indicators, fundamental_data, news_articles,
                   technical_score, fundamental_score, sentiment_score,
                   overall_score, advice, calls>>
    /\ UNCHANGED <<stock_data, form, calls>>

InitSentiment ==
    /\ pc = "analyze_sentiment"
    /\ news_articles \in NewsInputs
    /\ technical_indicators = None
    /\ fundamental_data = None
    /\ news_sentiment = None
    /\ technical_score = None
    /\ fundamental_score = None
    /\ sentiment_score = None
    /\ overall_score = None
    /\ advice = None
    /\ stock_data = None
    /\ NoForm
    /\ calls = <<>>

NextSentiment == AnalyzeSentiment

SpecSentiment == InitSentiment /\ [][NextSentiment]_vars

SentimentCalled == pc = "done" /\ Tag(news_sentiment) = "dict"
WellFormed(articles) == ~SentimentRaises(articles)

\* C9: analyze_sentiment of an empty article list returns no articles,
\* average_sentiment 0, sentiment_score exactly 5.0 and all three counts 0.
C9_EmptyListSummary ==
    (SentimentCalled /\ news_articles = List(<<>>)) =>
        /\ news_sentiment[2].articles = List(<<>>)
        /\ NumVal(news_sentiment[2].average_sentiment) = 0
        /\ NumVal(news_sentiment[2].sentiment_score) = D(500)
        /\ news_sentiment[2].positive = PyInt(0)
        /\ news_sentiment[2].negative = PyInt(0)
        /\ news_sentiment[2].neutral = PyInt(0)

C9_Witness ==
    /\ SentimentCalled
    /\ news_articles = List(<<>>)
    /\ news_sentiment[2].sentiment_score = Num(D(500))

\* C10: for a non-empty list of articles with compounds in [-1, 1] the
\* average_sentiment is the arithmetic mean of the compounds and the
\* sentiment_score is 5 + 5 * average_sentiment, between 0 and 10; one
\* article of compound 0.5 gives 7.5 and the category positive.
C10_MeanAndScore ==
    (SentimentCalled /\ Truthy(news_articles) /\ WellFormed(news_articles[2])) =>
        LET articles == news_articles[2]
            n == Len(articles)
            avg == NumVal(news_sentiment[2].average_sentiment)
            score == NumVal(news_sentiment[2].sentiment_score)
        IN  /\ avg * n = SumSeq([i \in 1..n |-> articles[i].compound])
            /\ score = D(500) + 5 * avg
            /\ score >= 0 /\ score <= D(1000)
            /\ (n = 1 /\ articles[1].compound = D(50)) =>
                  /\ score = D(750)
                  /\ news_sentiment[2].articles[2][1].sentiment = "positive"

\* C11: for a non-empty list of articles analyze_sentiment returns one
\* scored article per article, in the order of the input, positive for a
\* compound of at least 0.05, negative for one of at most -0.05 and neutral
\* otherwise; the three counts are the numbers of articles per category
\* and add up to the number of articles.
C11_ArticlesCategorised ==
    (SentimentCalled /\ Truthy(news_articles) /\ WellFormed(news_articles[2])) =>
        LET given == news_articles[2]
            scored == news_sentiment[2].articles[2]
            n == Len(given)
            cat(c) == IF c >= D(5) THEN "positive"
                      ELSE IF c <= -D(5) THEN "negative" ELSE "neutral"
            count(k) == Cardinality({i \in 1..n : cat(given[i].compound) = k})
        IN  /\ Len(scored) = n
            /\ \A i \in 1..n :
                  /\ scored[i].title = given[i].title
                  /\ scored[i].url = given[i].url
                  /\ scored[i].published_at = given[i].published_at
                  /\ scored[i].source = given[i].source
                  /\ scored[i].sentiment_score = Num(given[i].compound)
                  /\ scored[i].sentiment = cat(given[i].compound)
            /\ news_sentiment[2].positive = PyInt(count("positive"))
            /\ news_sentiment[2].negative = PyInt(count("negative"))
            /\ news_sentiment[2].neutral = PyInt(count("neutral"))
            /\ news_sentiment[2].positive[2] + news_sentiment[2].negative[2]
                 + news_sentiment[2].neutral[2] = n

\* compounds on both thresholds and between them, kept in their order
C11_Witness ==
    /\ SentimentCalled
    /\ Truthy(news_articles)
    /\ Len(news_articles[2]) = 3
    /\ WellFormed(news_articles[2])
    /\ news_articles[2][1].compound = -D(5)
    /\ news_articles[2][2].compound = D(4)
    /\ news_articles[2][3].compound = D(5)
    /\ news_sentiment[2].articles[2][1].sentiment = "negative"
    /\ news_sentiment[2].articles[2][2].sentiment = "neutral"
    /\ news_sentiment[2].articles[2][3].sentiment = "positive"
    /\ news_sentiment[2].positive = PyInt(1)
    /\ news_sentiment[2].negative = PyInt(1)
    /\ news_sentiment[2].neutral = PyInt(1)

\* two articles of different polarity: the mean is not one of the compounds
C10_Witness ==
    /\ SentimentCalled
    /\ Truthy(news_articles)
    /\ Len(news_articles[2]) = 2
    /\ WellFormed(news_articles[2])
    /\ news_articles[2][1].compound = D(100)
    /\ news_articles[2][2].compound = D(5)
    /\ news_sentiment[2].average_sentiment = Num(D(50) + D(5) \div 2)
    /\ news_sentiment[2].sentiment_score = Num(D(750) + D(25) \div 2)

(***************************************************************************)
(* calculate_overall_score called on its own                               *)
(***************************************************************************)
\* sub-scores, and two values outside [0, 10]
ScoreVals == {-D(100), 0, D(25), D(250), D(425), D(500), D(513), D(525),
              D(750), D(975), D(1000), D(1100)}

CalculateOverallScore ==
    /\ pc = "calculate_overall_score"
    /\ \E tie_up \in BOOLEAN :
          overall_score' = calculate_overall_score(technical_score,
                               fundamental_score, sentiment_score, tie_up)
    /\ pc' = "done"
    /\ UNCHANGED <<technical_indicators, fundamental_data, news_articles,
                   news_sentiment, technical_score, fundamental_score,
                   sentiment_score, advice, calls>>
    /\ UNCHANGED <<stock_data, form, calls>>

\* three numbers, or None in the place of one of them
ScoreTriples ==
    { <<Num(t), Num(f), Num(s)>> : t \in ScoreVals, f \in ScoreVals, s \in ScoreVals }
    \cup { <<None, Num(D(500)), Num(D(500))>>,
           <<Num(D(500)), None, Num(D(500))>>,
           <<Num(D(500)), Num(D(500)), None>> }

InitOverall ==
    /\ pc = "calculate_overall_score"
    /\ \E scores \in ScoreTriples :
          /\ technical_score = scores[1]
          /\ fundamental_score = scores[2]
          /\ sentiment_score = scores[3]
    /\ technical_indicators = None
    /\ fundamental_data = None
    /\ news_articles = None
    /\ news_sentiment = None
    /\ overall_score = None
    /\ advice = None
    /\ stock_data = None
    /\ NoForm
    /\ calls = <<>>

NextOverall == CalculateOverallScore

SpecOverall == InitOverall /\ [][NextOverall]_vars

OverallCalled == pc = "done" /\ Tag(overall_score) = "num"
InScoreRange(v) == NumVal(v) >= 0 /\ NumVal(v) <= D(1000)

\* C4: calculate_overall_score(t, f, s) is t * 0.4 + f * 0.4 + s * 0.2
\* rounded to one decimal place (a whole number of tenths at most 0.05 away
\* from the weighted sum), and is not clamped; (10, 0, 0) gives 4.0,
\* (5, 5, 5) gives 5.0 and (0, 0, 0) gives 0.0.
C4_WeightedSumRounded ==
    OverallCalled =>
        LET t == technical_score[2]
            f == fundamental_score[2]
            s == sentiment_score[2]
            exact == 4 * t + 4 * f + 2 * s
            r == overall_score[2]
        IN  /\ r % D(10) = 0
            /\ 10 * r - exact <= D(50)
            /\ exact - 10 * r <= D(50)
            /\ (t = D(1000) /\ f = 0 /\ s = 0) => r = D(400)
            /\ (t = D(500) /\ f = D(500) /\ s = D(500)) => r = D(500)
            /\ (t = 0 /\ f = 0 /\ s = 0) => r = 0

C4_Witness ==
    /\ OverallCalled
    /\ technical_score = Num(D(1000))
    /\ fundamental_score = Num(0)
    /\ sentiment_score = Num(0)
    /\ overall_score = Num(D(400))

(***************************************************************************)
(* get_investment_advice called on its own                                 *)
(***************************************************************************)
OverallVals == {0, D(300), D(400), D(401), D(450), D(549), D(550), D(699),
                D(700), D(850), D(1000)}

OverallInputs == {None} \cup { Num(v) : v \in OverallVals }

\* MACD crosses, trend and trend strength commented on by the rationale
TrendProfiles ==
    { [bull |-> Absent, bear |-> Absent, up |-> Absent, strong |-> Absent],
      [bull |-> Bool(TRUE), bear |-> Bool(FALSE), up |-> Bool(TRUE),
       strong |-> Bool(TRUE)],
      [bull |-> Bool(FALSE), bear |-> Bool(TRUE), up |-> Bool(FALSE),
       strong |-> Bool(TRUE)] }

AdviceTechDicts ==
    { Dict([rsi |-> r, adx |-> Absent, recent_performance |-> Absent,
            is_uptrend |-> tp.up, macd_bullish_cross |-> tp.bull,
            macd_bearish_cross |-> tp.bear, near_support |-> ns,
            near_resistance |-> nr, high_volume |-> Absent,
            is_overbought |-> ob, is_oversold |-> os,
            strong_trend |-> tp.strong]) :
        r \in {Absent, Num(D(3000)), Num(D(7000))}, tp \in TrendProfiles,
        ns \in {Bool(FALSE), Bool(TRUE)}, nr \in {Bool(FALSE), Bool(TRUE)},
        ob \in SetFlagVals, os \in SetFlagVals }

AdviceTechInputs ==
    {None, Dict([EmptyTech EXCEPT !["rsi"] = Str])} \cup AdviceTechDicts

AdviceFundInputs ==
    { None, Dict(EmptyFund), Dict(AllNoneFund),
      Dict([AllNoneFund EXCEPT !["trailing_pe"] = Str]),
      Dict([AllNoneFund EXCEPT !["trailing_pe"] = Num(D(1000)),
                               !["roe"] = Num(D(20))]),
      Dict([AllNoneFund EXCEPT !["trailing_pe"] = Num(-D(100)),
                               !["roe"] = Num(D(4))]) }

EmptyNews == [k \in NewsKeys |-> Absent]

Summary(avg) == Dict([NeutralSummary[2] EXCEPT !["average_sentiment"] = Num(avg)])

AdviceNewsInputs ==
    {None, Dict(EmptyNews), NeutralSummary}
    \cup { Summary(avg) : avg \in {-D(30), -D(11), -D(10), D(10), D(11), D(30)} }

GetInvestmentAdvice ==
    /\ pc = "get_investment_advice"
    /\ advice' = get_investment_advice(overall_score, technical_indicators,
                                       fundamental_data, news_sentiment)
    /\ pc' = "done"
    /\ UNCHANGED <<technical_indicators, fundamental_data, news_articles,
                   news_sentiment, technical_score, fundamental_score,
                   sentiment_score, overall_score, calls>>
    /\ UNCHANGED <<stock_data, form, calls>>

InitAdvice ==
    /\ pc = "get_investment_advice"
    /\ overall_score \in OverallInputs
    /\ technical_indicators \in AdviceTechInputs
    /\ fundamental_data \in AdviceFundInputs
    /\ news_sentiment \in AdviceNewsInputs
    /\ news_articles = None
    /\ technical_score = None
    /\ fundamental_score = None
    /\ sentiment_score = None
    /\ advice = None
    /\ stock_data = None
    /\ NoForm
    /\ calls = <<>>

NextAdvice == GetInvestmentAdvice

SpecAdvice == InitAdvice /\ [][NextAdvice]_vars

\* the call has returned a recommendation
AdviceReturned == pc = "done" /\ Tag(advice) = "dict"
Recommendation == advice[2].recommendation
Rationale == advice[2].rationale
InRationale(line) == \E i \in 1..Len(Rationale) : Rationale[i] = line
NoOverrideLine == ~InRationale(BuyLine) /\ ~InRationale(SellLine)

\* the conditions of the two overrides, read off the arguments of the call
ArgFlag(k) ==
    /\ Truthy(technical_indicators)
    /\ Truthy(Get(technical_indicators, k, Bool(FALSE)))
ArgAvg == NumVal(AvgSentiment(news_sentiment))
BuyCase ==
    /\ ArgFlag("is_oversold") /\ ArgFlag("near_support")
    /\ Truthy(fundamental_data)
    /\ Truthy(news_sentiment) /\ ArgAvg > D(10)
SellCase ==
    /\ ArgFlag("is_overbought") /\ ArgFlag("near_resistance")
    /\ Truthy(fundamental_data)
    /\ Truthy(news_sentiment) /\ ArgAvg < -D(10)

\* C2: with no override firing the recommendation is BUY for a score of at
\* least 7.0, else SELL for a score of at most 4.0, else DO NOTHING for a
\* score below 5.5, else HOLD; 7.0 gives BUY, 6.99 HOLD, 5.5 HOLD, 5.49
\* DO NOTHING and 4.0 SELL.
C2_BaseRecommendation ==
    (AdviceReturned /\ ~BuyCase /\ ~SellCase) =>
        LET o == overall_score[2]
        IN  /\ o >= D(700) => Recommendation = "BUY"
            /\ (o < D(700) /\ o <= D(400)) => Recommendation = "SELL"
            /\ (o < D(700) /\ o > D(400) /\ o < D(550)) =>
                  Recommendation = "DO NOTHING"
            /\ (o < D(700) /\ o > D(400) /\ o >= D(550)) =>
                  Recommendation = "HOLD"
            /\ o = D(700) => Recommendation = "BUY"
            /\ o = D(699) => Recommendation = "HOLD"
            /\ o = D(550) => Recommendation = "HOLD"
            /\ o = D(549) => Recommendation = "DO NOTHING"
            /\ o = D(400) => Recommendation = "SELL"

C2_Witness ==
    /\ AdviceReturned /\ ~BuyCase /\ ~SellCase
    /\ overall_score = Num(D(699))
    /\ Truthy(technical_indicators)
    /\ Recommendation = "HOLD"

\* C3 as stated: with no override firing every score in [4.0, 5.5), 4.0
\* included, gives DO NOTHING.
C3_ClosedBandDoNothing ==
    (AdviceReturned /\ ~BuyCase /\ ~SellCase
       /\ overall_score[2] >= D(400) /\ overall_score[2] < D(550)) =>
        Recommendation = "DO NOTHING"

\* C3 amended: with no override firing every score strictly between 4.0
\* and 5.5 gives DO NOTHING, and the score 4.0 itself gives SELL.
C3_OpenBandDoNothing ==
    (AdviceReturned /\ ~BuyCase /\ ~SellCase) =>
        /\ (overall_score[2] > D(400) /\ overall_score[2] < D(550)) =>
              Recommendation = "DO NOTHING"
        /\ overall_score[2] = D(400) => Recommendation = "SELL"

C3_Witness ==
    /\ AdviceReturned /\ ~BuyCase /\ ~SellCase
    /\ overall_score = Num(D(401))
    /\ Recommendation = "DO NOTHING"

\* C6: whatever the score, when is_oversold and near_support are set, the
\* fundamental data is non-empty and average_sentiment is above 0.1, the
\* recommendation is BUY and the rationale has the buying-opportunity line.
C6_BuyOverride ==
    (AdviceReturned /\ BuyCase) =>
        Recommendation = "BUY" /\ InRationale(BuyLine)

\* the override lifts a score whose base recommendation is SELL
C6_Witness ==
    /\ AdviceReturned /\ BuyCase
    /\ overall_score = Num(0)
    /\ Recommendation = "BUY"
    /\ InRationale(BuyLine)

\* C7: whatever the score, when is_overbought and near_resistance are set,
\* the fundamental data is non-empty and average_sentiment is below -0.1,
\* the recommendation is SELL and the profit-taking line is the last line
\* of the rationale.
C7_SellOverride ==
    (AdviceReturned /\ SellCase) =>
        /\ Recommendation = "SELL"
        /\ Rationale[Len(Rationale)] = SellLine

\* the override lowers a score whose base recommendation is BUY
C7_Witness ==
    /\ AdviceReturned /\ SellCase
    /\ overall_score = Num(D(1000))
    /\ Recommendation = "SELL"
    /\ Rationale[Len(Rationale)] = SellLine

\* the position of a rationale line in the fixed sequence of advisory.py:
\* 10 score band; 20 RSI zone, 21 MACD cross, 22 trend, 23 support or
\* resistance; 30 P/E zone, 31 ROE zone; 40 sentiment band; 50 override
LineRank(line) ==
    IF line \in {"Very strong overall performance metrics.",
                 "Good overall performance metrics.",
                 "Poor overall performance metrics.",
                 "Below average performance metrics.",
                 "Average overall performance metrics."} THEN 10
    ELSE IF line \in {"RSI indicates oversold conditions.",
                      "RSI indicates overbought conditions."} THEN 20
    ELSE IF line \in {"Recent MACD bullish crossover suggests upward momentum.",
                      "Recent MACD bearish crossover suggests downward momentum."}
      THEN 21
    ELSE IF line \in {"Strong uptrend in price action.",
                      "Price is in an uptrend.",
                      "Strong downtrend in price action.",
                      "Price is in a downtrend."} THEN 22
    ELSE IF line \in {"Price is near support level, potential bounce point.",
                      "Price is near resistance level, may face selling pressure."}
      THEN 23
    ELSE IF line \in {"Company has negative earnings (P/E).",
                      "P/E ratio suggests stock may be undervalued.",
                      "High P/E ratio may indicate overvaluation."} THEN 30
    ELSE IF line \in {"Strong return on equity (ROE) indicates efficient use of capital.",
                      "Low return on equity (ROE) suggests inefficient use of capital."}
      THEN 31
    ELSE IF line \in {"Recent news sentiment is very positive.",
                      "Recent news sentiment is positive.",
                      "Recent news sentiment is very negative.",
                      "Recent news sentiment is negative."} THEN 40
    ELSE IF line \in {"Oversold conditions with positive news make this a potential buying opportunity.",
                      "Overbought conditions with negative news suggest taking profits."}
      THEN 50
    ELSE 0

\* C17: the rationale of every advice is non-empty and in the fixed order:
\* exactly one score band line first, then the technical lines (RSI, MACD,
\* trend, support/resistance) only if technical_indicators was supplied,
\* then the fundamental lines (P/E, ROE) only if fundamental_data was
\* supplied, then at most one sentiment line only if news_sentiment was
\* supplied, then the override line; no line precedes a line of an earlier
\* group.
C17_RationaleOrdered ==
    AdviceReturned =>
        LET n == Len(Rationale)
            rank(i) == LineRank(Rationale[i])
            group(i) == rank(i) \div 10
        IN  /\ n >= 1
            /\ group(1) = 1
            /\ \A i \in 2..n : group(i) \in 2..5
            /\ \A i \in 1..n : \A j \in 1..n : i < j => rank(i) < rank(j)
            /\ (\E i \in 1..n : group(i) = 2) => Truthy(technical_indicators)
            /\ (\E i \in 1..n : group(i) = 3) => Truthy(fundamental_data)
            /\ (\E i \in 1..n : group(i) = 4) => Truthy(news_sentiment)
            /\ Cardinality({i \in 1..n : group(i) = 4}) <= 1

\* a rationale with a line of every one of the nine kinds
C17_Witness ==
    /\ AdviceReturned
    /\ Len(Rationale) = 9
    /\ Rationale[1] = "Good overall performance metrics."
    /\ Rationale[2] = "RSI indicates oversold conditions."
    /\ Rationale[5] = "Price is near support level, potential bounce point."
    /\ Rationale[7] = "Strong return on equity (ROE) indicates efficient use of capital."
    /\ Rationale[8] = "Recent news sentiment is very positive."
    /\ Rationale[9] = BuyLine

(***************************************************************************)
(* calculate_technical_indicators and analyze_technical on a price series  *)
(***************************************************************************)
\* MACD and its signal on the second-to-last and on the last bar
MacdBars ==
    { [macd_prev |-> Num(a), macds_prev |-> Num(0), macd |-> Num(b),
       macds |-> Num(0)] : a \in {-D(100), 0, D(100)}, b \in {-D(100), 0, D(100)} }
    \cup { [macd_prev |-> NaN, macds_prev |-> NaN, macd |-> NaN, macds |-> NaN] }

\* short and long moving average; the long one needs the most bars
MovingAverages ==
    { [ma_short |-> Num(D(11000)), ma_long |-> Num(D(10000))],
      [ma_short |-> Num(D(9000)), ma_long |-> Num(D(10000))],
      [ma_short |-> Num(D(10000)), ma_long |-> NaN],
      [ma_short |-> NaN, ma_long |-> NaN] }

\* Bollinger bands around a close of 100: 3% away, nearer, and unavailable
Bands ==
    { [lower_band |-> Num(D(9700)), upper_band |-> Num(D(10300))],
      [lower_band |-> Num(D(9800)), upper_band |-> Num(D(12000))],
      [lower_band |-> Num(D(8000)), upper_band |-> Num(D(10200))],
      [lower_band |-> NaN, upper_band |-> NaN] }

Volumes ==
    { [volume |-> Num(D(200)), volume_ma |-> Num(D(100))],
      [volume |-> Num(D(100)), volume_ma |-> Num(D(100))],
      [volume |-> Num(D(100)), volume_ma |-> NaN] }

Bars(r, mc, ma, bb, a, p, v) ==
    [rsi |-> r, macd_prev |-> mc.macd_prev, macds_prev |-> mc.macds_prev,
     macd |-> mc.macd, macds |-> mc.macds, ma_short |-> ma.ma_short,
     ma_long |-> ma.ma_long, close |-> Num(D(10000)),
     lower_band |-> bb.lower_band, upper_band |-> bb.upper_band,
     atr |-> Num(D(200)), adx |-> a, recent_performance |-> p,
     volume |-> v.volume, volume_ma |-> v.volume_ma]

\* series whose indicators are numbers or nan
Frames ==
    { Frame(Bars(r, mc, ma, bb, a, p, v)) :
        r \in {Num(D(2000)), Num(D(3000)), Num(D(8000)), NaN},
        mc \in MacdBars, ma \in MovingAverages, bb \in Bands,
        a \in {Num(D(4000)), Num(D(2500)), NaN},
        p \in {Num(D(48)), Num(-D(148)), NaN},
        v \in Volumes }

\* an oversold series in an uptrend with every indicator available
FullBars ==
    Bars(Num(D(2000)),
         [macd_prev |-> Num(-D(100)), macds_prev |-> Num(0),
          macd |-> Num(D(100)), macds |-> Num(0)],
         [ma_short |-> Num(D(11000)), ma_long |-> Num(D(10000))],
         [lower_band |-> Num(D(9800)), upper_band |-> Num(D(12000))],
         Num(D(4000)), Num(D(48)),
         [volume |-> Num(D(200)), volume_ma |-> Num(D(100))])

\* too few bars for one lookback window: the library returns None for it
ShortFrames ==
    { Frame([FullBars EXCEPT ![k] = None]) :
        k \in {"rsi", "ma_short", "ma_long", "atr", "adx", "volume_ma"} }
    \cup { Frame([FullBars EXCEPT !["lower_band"] = None, !["upper_band"] = None]),
           Frame([FullBars EXCEPT !["macd_prev"] = None, !["macds_prev"] = None,
                                  !["macd"] = None, !["macds"] = None]) }

FrameInputs == {EmptyFrame} \cup Frames \cup ShortFrames

CalculateTechnicalIndicators ==
    /\ pc = "calculate_technical_indicators"
    /\ technical_indicators' = calculate_technical_indicators(stock_data)
    /\ pc' = "analyze_technical"
    /\ UNCHANGED <<fundamental_data, news_articles, news_sentiment,
                   technical_score, fundamental_score, sentiment_score,
                   overall_score, advice, stock_data, form, calls>>

InitIndicators ==
    /\ pc = "calculate_technical_indicators"
    /\ stock_data \in FrameInputs
    /\ technical_indicators = None
    /\ fundamental_data = None
    /\ news_articles = None
    /\ news_sentiment = None
    /\ technical_score = None
    /\ fundamental_score = None
    /\ sentiment_score = None
    /\ overall_score = None
    /\ advice = None
    /\ NoForm
    /\ calls = <<>>

NextIndicators == CalculateTechnicalIndicators \/ AnalyzeTechnical

SpecIndicators == InitIndicators /\ [][NextIndicators]_vars

\* the indicators of a non-empty series have been calculated
IndicatorsCalculated ==
    /\ pc \in {"analyze_technical", "done"}
    /\ ~IsEmpty(stock_data)
    /\ Truthy(technical_indicators)

\* a value the library could not compute
Unavailable(v) == Tag(v) \in {"nan", "none"}

\* the signals that depend on available indicators only, the others absent
AvailableSignals(bars) ==
    LET ok(k) == ~Unavailable(bars[k])
        only(cond, v) == IF cond THEN v ELSE Absent
        macd_ok == ok("macd_prev") /\ ok("macds_prev") /\ ok("macd") /\ ok("macds")
        less(a, b) == bars[a][2] < bars[b][2]
    IN  Dict([rsi |-> only(ok("rsi"), bars.rsi),
              adx |-> only(ok("adx"), bars.adx),
              recent_performance |->
                  only(ok("recent_performance"), bars.recent_performance),
              is_uptrend |->
                  only(ok("ma_short") /\ ok("ma_long"),
                       Bool(less("ma_long", "ma_short"))),
              is_overbought |-> only(ok("rsi"), Bool(bars.rsi[2] > D(7000))),
              is_oversold |-> only(ok("rsi"), Bool(bars.rsi[2] < D(3000))),
              macd_bullish_cross |->
                  only(macd_ok, Bool(less("macd_prev", "macds_prev")
                                     /\ less("macds", "macd"))),
              macd_bearish_cross |->
                  only(macd_ok, Bool(less("macds_prev", "macd_prev")
                                     /\ less("macd", "macds"))),
              near_support |->
                  only(ok("lower_band"),
                       Bool((bars.close[2] - bars.lower_band[2]) * 100
                              < 3 * bars.close[2])),
              near_resistance |->
                  only(ok("upper_band"),
                       Bool((bars.upper_band[2] - bars.close[2]) * 100
                              < 3 * bars.close[2])),
              strong_trend |-> only(ok("adx"), Bool(bars.adx[2] > D(2500))),
              high_volume |->
                  only(ok("volume_ma"), Bool(less("volume_ma", "volume")))])

\* C19: when the series has too few bars for a lookback window, the
\* indicators of that window are unavailable and the Technical Scorer
\* treats them as absent: the score is the one the remaining available
\* signals alone produce.
C19_UnavailableTreatedAsAbsent ==
    (/\ pc = "done"
     /\ ~IsEmpty(stock_data)
     /\ \E k \in FrameFields : Unavailable(stock_data[2][k]))
      => technical_score = Num(Clamp(TechnicalSum(AvailableSignals(stock_data[2]))))

\* C20: calculate_technical_indicators sets macd_bullish_cross and not
\* macd_bearish_cross when MACD is below its signal on the second-to-last
\* bar and above it on the last bar; with the two bars swapped the flags
\* are exchanged; the flags are never both true, and both are false when
\* MACD equals its signal on either bar.
C20_MacdCross ==
    IndicatorsCalculated =>
        LET bars == stock_data[2]
            known == \A k \in {"macd_prev", "macds_prev", "macd", "macds"} :
                        Tag(bars[k]) = "num"
            before == bars.macd_prev[2] - bars.macds_prev[2]
            now == bars.macd[2] - bars.macds[2]
            bull == technical_indicators[2].macd_bullish_cross
            bear == technical_indicators[2].macd_bearish_cross
            swapped == calculate_technical_indicators(
                           Frame([bars EXCEPT !.macd_prev = bars.macd,
                                              !.macds_prev = bars.macds,
                                              !.macd = bars.macd_prev,
                                              !.macds = bars.macds_prev]))
        IN  /\ ~(bull = Bool(TRUE) /\ bear = Bool(TRUE))
            /\ swapped[2].macd_bullish_cross = bear
            /\ swapped[2].macd_bearish_cross = bull
            /\ known =>
                 /\ (before < 0 /\ now > 0) => (bull = Bool(TRUE) /\ bear = Bool(FALSE))
                 /\ (before > 0 /\ now < 0) => (bear = Bool(TRUE) /\ bull = Bool(FALSE))
                 /\ (before = 0 \/ now = 0) => (bull = Bool(FALSE) /\ bear = Bool(FALSE))

\* MACD crosses its signal from below
C20_Witness ==
    /\ IndicatorsCalculated
    /\ stock_data[2].macd_prev = Num(-D(100))
    /\ stock_data[2].macds_prev = Num(0)
    /\ stock_data[2].macd = Num(D(100))
    /\ stock_data[2].macds = Num(0)
    /\ technical_indicators[2].macd_bullish_cross = Bool(TRUE)
    /\ technical_indicators[2].macd_bearish_cross = Bool(FALSE)

(***************************************************************************)
(* Any one of the five functions called on its own                         *)
(***************************************************************************)
InitCalls == InitScorers \/ InitSentiment \/ InitOverall \/ InitAdvice

NextCalls ==
    \/ AnalyzeTechnical
    \/ AnalyzeFundamental
    \/ AnalyzeSentiment
    \/ CalculateOverallScore
    \/ GetInvestmentAdvice

SpecCalls == InitCalls /\ [][NextCalls]_vars

\* C12: every scoring and advisory function returns a value for every
\* input and never raises an exception to its caller.
C12_NeverRaises ==
    pc = "done" =>
        /\ technical_score # Raised
        /\ fundamental_score # Raised
        /\ news_sentiment # Raised
        /\ overall_score # Raised
        /\ advice # Raised

\* C18: an internal error while scoring a non-empty input gives the
\* default of the scorer and no partial result: 5.0 from analyze_technical
\* when rsi, adx or recent_performance is None or a string, 5.0 from
\* analyze_fundamental when a compared metric is a string, and from
\* analyze_sentiment the summary of the empty list (no articles, average
\* 0, score 5.0, all counts 0) when an article lacks one of its keys.
C18_ErrorGivesDefault ==
    /\ (/\ TechnicalCalled
        /\ Truthy(technical_indicators)
        /\ \E k \in {"rsi", "adx", "recent_performance"} :
              Tag(technical_indicators[2][k]) \in {"none", "str"})
         => technical_score = Num(D(500))
    /\ (/\ FundamentalCalled
        /\ Truthy(fundamental_data)
        /\ \E k \in {"trailing_pe", "price_to_book", "roe", "profit_margins",
                     "dividend_yield", "debt_to_equity", "current_ratio",
                     "beta"} :
              Tag(fundamental_data[2][k]) = "str")
         => fundamental_score = Num(D(500))
    /\ (/\ SentimentCalled
        /\ Truthy(news_articles)
        /\ \E i \in 1..Len(news_articles[2]) :
              \/ Tag(news_articles[2][i].title) = "absent"
              \/ Tag(news_articles[2][i].description) = "absent"
              \/ Tag(news_articles[2][i].url) = "absent")
         => /\ news_sentiment[2].articles = List(<<>>)
            /\ NumVal(news_sentiment[2].average_sentiment) = 0
            /\ NumVal(news_sentiment[2].sentiment_score) = D(500)
            /\ news_sentiment[2].positive = PyInt(0)
            /\ news_sentiment[2].negative = PyInt(0)
            /\ news_sentiment[2].neutral = PyInt(0)

\* a well-formed positive article followed by one with no description:
\* the first article is not kept
C18_Witness ==
    /\ SentimentCalled
    /\ Truthy(news_articles)
    /\ Len(news_articles[2]) = 2
    /\ news_articles[2][1] = Article(D(50))
    /\ Tag(news_articles[2][2].description) = "absent"
    /\ news_sentiment[2].articles = List(<<>>)
    /\ NumVal(news_sentiment[2].sentiment_score) = D(500)

(***************************************************************************)
(* dashboard.py: one run of the page script                                *)
(***************************************************************************)
MaxTickerLen == 2
TickerChars == {"a", "A", ".", "$", " "}
TickerInputs ==
    { Chars(s) : s \in UNION { [1..n -> TickerChars] : n \in 0..MaxTickerLen } }

\* what the provider returns for the price history
PipelineFrames ==
    { EmptyFrame, Frame(FullBars), Frame([FullBars EXCEPT !["ma_long"] = None]),
      Frame([FullBars EXCEPT !["rsi"] = Num(D(8000)),
                             !["ma_short"] = Num(D(9000)),
                             !["recent_performance"] = NaN]) }
    \cup { Frame([FullBars EXCEPT !["rsi"] = Num(r)]) :
             r \in {D(2999), D(3000), D(3001), D(5000), D(6999), D(7000),
                    D(7001)} }

\* every rule of the Fundamental Scorer at its best, and at its worst
BestFund ==
    [trailing_pe |-> Num(D(1000)), forward_pe |-> Num(D(500)),
     price_to_book |-> Num(D(50)), eps |-> Num(D(100)), roe |-> Num(D(20)),
     profit_margins |-> Num(D(20)), dividend_yield |-> Num(D(5)),
     debt_to_equity |-> Num(D(30)), current_ratio |-> Num(D(300)),
     quick_ratio |-> None, beta |-> Num(D(50))]

WorstFund ==
    [trailing_pe |-> Num(-D(100)), forward_pe |-> Num(D(4000)),
     price_to_book |-> Num(D(600)), eps |-> Num(-D(100)), roe |-> Num(D(4)),
     profit_margins |-> Num(D(4)), dividend_yield |-> Num(D(1) \div 2),
     debt_to_equity |-> Num(D(300)), current_ratio |-> Num(D(50)),
     quick_ratio |-> None, beta |-> Num(D(200))]

\* what get_fundamental_data returns: {} on an error, else all eleven keys
PipelineFunds ==
    { Dict(EmptyFund), Dict(AllNoneFund), Dict(BestFund), Dict(WorstFund),
      Dict([AllNoneFund EXCEPT !["trailing_pe"] = Str]) }

\* what get_news returns
PipelineNews ==
    { List(<<>>), List(<<Article(D(100))>>), List(<<Article(-D(100))>>),
      List(<<Article(D(50)), Article(-D(5))>>),
      List(<<Article(D(50)), [Article(D(50)) EXCEPT !.description = Absent]>>) }

data == <<technical_indicators, fundamental_data, news_articles, news_sentiment,
          stock_data>>
scores == <<technical_score, fundamental_score, sentiment_score, overall_score>>

\* lines 100-105, and 253-266 when nothing was submitted
ProcessForm ==
    /\ pc = "form"
    /\ IF Truthy(submit_button) /\ Len(ticker_input[2]) > 0
       THEN LET ticker == Upper(Strip(ticker_input[2]))
            IN  /\ is_valid' = Bool(validate_ticker(ticker, ticker_info))
                /\ pc' = IF validate_ticker(ticker, ticker_info)
                         THEN "get_stock_data" ELSE "error"
                /\ shown' = shown
       ELSE /\ shown' = Display("info")
            /\ pc' = "done"
            /\ is_valid' = is_valid
    /\ UNCHANGED <<data, scores, advice, ticker_input, submit_button, ticker_info, calls>>

\* lines 107-108
ShowValidationError ==
    /\ pc = "error"
    /\ shown' = Display("error")
    /\ pc' = "done"
    /\ UNCHANGED <<data, scores, advice, ticker_input, submit_button,
                   ticker_info, is_valid, calls>>

\* lines 116-117; company_info only names the query of get_news
GetStockData ==
    /\ pc = "get_stock_data"
    /\ stock_data' \in PipelineFrames
    /\ pc' = "get_fundamental_data"
    /\ UNCHANGED <<technical_indicators, fundamental_data, news_articles,
                   news_sentiment, scores, advice, form, calls>>

\* line 122
GetFundamentalData ==
    /\ pc = "get_fundamental_data"
    /\ fundamental_data' \in PipelineFunds
    /\ pc' = "indicators"
    /\ UNCHANGED <<technical_indicators, news_articles, news_sentiment,
                   stock_data, scores, advice, form, calls>>

\* line 127 followed at once by line 138, ahead of the news fetch
CalculateIndicatorsAndScore ==
    /\ pc = "indicators"
    /\ technical_indicators' = calculate_technical_indicators(stock_data)
    /\ technical_score' = analyze_technical(technical_indicators')
    /\ pc' = "get_news"
    /\ UNCHANGED <<fundamental_data, news_articles, news_sentiment, stock_data,
                   fundamental_score, sentiment_score, overall_score, advice,
                   form, calls>>

\* line 127
CalculateIndicators ==
    /\ pc = "indicators"
    /\ technical_indicators' = calculate_technical_indicators(stock_data)
    /\ pc' = "get_news"
    /\ UNCHANGED <<fundamental_data, news_articles, news_sentiment, stock_data,
                   scores, advice, form, calls>>

\* line 132
GetNews ==
    /\ pc = "get_news"
    /\ news_articles' \in PipelineNews
    /\ pc' = "sentiment"
    /\ UNCHANGED <<technical_indicators, fundamental_data, news_sentiment,
                   stock_data, scores, advice, form, calls>>

\* line 133
ScoreSentiment ==
    /\ pc = "sentiment"
    /\ news_sentiment' = analyze_sentiment(news_articles)
    /\ pc' = "technical"
    /\ UNCHANGED <<technical_indicators, fundamental_data, news_articles,
                   stock_data, scores, advice, form, calls>>

\* line 138
ScoreTechnical ==
    /\ pc = "technical"
    /\ technical_score' = analyze_technical(technical_indicators)
    /\ pc' = "fundamental"
    /\ UNCHANGED <<data, fundamental_score, sentiment_score, overall_score,
                   advice, form, calls>>

\* line 139
ScoreFundamental ==
    /\ pc = "fundamental"
    /\ fundamental_score' = analyze_fundamental(fundamental_data)
    /\ pc' = "sentiment_score"
    /\ UNCHANGED <<data, technical_score, sentiment_score, overall_score,
                   advice, form, calls>>

\* line 140
ReadSentimentScore ==
    /\ pc = "sentiment_score"
    /\ sentiment_score' = Get(news_sentiment, "sentiment_score", Num(D(500)))
    /\ pc' = "overall"
    /\ UNCHANGED <<data, technical_score, fundamental_score, overall_score,
                   advice, form, calls>>

\* line 141
ComposeScore ==
    /\ pc = "overall"
    /\ \E tie_up \in BOOLEAN :
          overall_score' = calculate_overall_score(technical_score,
                               fundamental_score, sentiment_score, tie_up)
    /\ pc' = "advice"
    /\ UNCHANGED <<data, technical_score, fundamental_score, sentiment_score,
                   advice, form, calls>>

\* line 147; an exception of the advisor ends the script run
GetAdvice ==
    /\ pc = "advice"
    /\ advice' = get_investment_advice(overall_score, technical_indicators,
                                       fundamental_data, news_sentiment)
    /\ pc' = IF advice' = Raised THEN "exception" ELSE "render"
    /\ UNCHANGED <<data, scores, form, calls>>

\* the page shows the traceback of an uncaught exception
ShowException ==
    /\ pc = "exception"
    /\ shown' = Display("exception")
    /\ pc' = "done"
    /\ UNCHANGED <<data, scores, advice, ticker_input, submit_button,
                   ticker_info, is_valid, calls>>

\* lines 154-250: the recommendation and the scores are written first; the
\* table of detailed metrics formats technical_indicators.get('rsi', 'N/A')
\* with :.2f, which raises on the 'N/A' of an empty indicator set
DisplayResults ==
    /\ pc = "render"
    /\ shown' = IF Truthy(technical_indicators) THEN Display("results")
                ELSE Display("results and exception")
    /\ pc' = "done"
    /\ UNCHANGED <<data, scores, advice, ticker_input, submit_button,
                   ticker_info, is_valid, calls>>

Init ==
    /\ pc = "form"
    /\ ticker_input \in TickerInputs
    /\ submit_button \in {Bool(FALSE), Bool(TRUE)}
    /\ ticker_info \in {Info("price"), Info("no_price"), Info("error")}
    /\ is_valid = None
    /\ shown = Display("form")
    /\ stock_data = None
    /\ technical_indicators = None
    /\ fundamental_data = None
    /\ news_articles = None
    /\ news_sentiment = None
    /\ technical_score = None
    /\ fundamental_score = None
    /\ sentiment_score = None
    /\ overall_score = None
    /\ advice = None
    /\ calls = <<>>

Next ==
    \/ ProcessForm
    \/ ShowValidationError
    \/ GetStockData
    \/ GetFundamentalData
    \/ CalculateIndicators
    \/ GetNews
    \/ ScoreSentiment
    \/ ScoreTechnical
    \/ ScoreFundamental
    \/ ReadSentimentScore
    \/ ComposeScore
    \/ GetAdvice
    \/ ShowException
    \/ DisplayResults

Spec == Init /\ [][Next]_vars

\* the form was submitted
Submitted == Truthy(submit_button)
\* the ticker typed into the form does not have the format of a symbol
InvalidFormat == ~MatchesFormat(Upper(Strip(ticker_input[2])))
\* the provider has no price for the ticker
NoPriceData == ticker_info # Info("price")
\* no stage of the pipeline has run and nothing of it is displayed
NoStageRan ==
    /\ Tag(stock_data) = "none"
    /\ Tag(fundamental_data) = "none"
    /\ Tag(technical_indicators) = "none"
    /\ Tag(news_articles) = "none"
    /\ Tag(news_sentiment) = "none"
    /\ Tag(technical_score) = "none"
    /\ Tag(fundamental_score) = "none"
    /\ Tag(sentiment_score) = "none"
    /\ Tag(overall_score) = "none"
    /\ Tag(advice) = "none"
    /\ pc \in {"form", "error", "done"}
    /\ shown \in {Display("form"), Display("error"), Display("info")}

\* C13 as stated: in every submission with an invalid ticker format or no
\* price data, a validation error is shown, no pipeline stage has run and
\* no results are rendered; stages run only after the validator returned
\* true.
C13_InvalidShowsError ==
    /\ (pc = "done" /\ Submitted /\ (InvalidFormat \/ NoPriceData))
         => (shown = Display("error") /\ NoStageRan)
    /\ ~NoStageRan => is_valid = Bool(TRUE)

\* C13: in every submission of a non-empty ticker input with an invalid
\* format or no price data, a validation error is shown, no pipeline stage
\* has run and no results are rendered; a submission of an empty input
\* shows the welcome information and no error, and runs no stage either;
\* stages run only after the validator returned true, and the error is
\* shown only after it returned false.
C13_NonEmptyInvalidShowsError ==
    /\ (/\ pc = "done" /\ Submitted
        /\ Len(ticker_input[2]) > 0
        /\ (InvalidFormat \/ NoPriceData))
         => (shown = Display("error") /\ NoStageRan /\ is_valid = Bool(FALSE))
    /\ (pc = "done" /\ Submitted /\ Len(ticker_input[2]) = 0)
         => (shown = Display("info") /\ NoStageRan /\ is_valid = None)
    /\ ~NoStageRan => is_valid = Bool(TRUE)
    /\ shown = Display("error") => (is_valid = Bool(FALSE) /\ NoStageRan)
    /\ is_valid = Bool(TRUE) => (~InvalidFormat /\ ~NoPriceData)

\* a symbol of valid format for which the provider has no price
C13_Witness ==
    /\ pc = "done"
    /\ Submitted
    /\ ticker_input = Chars(<<"a", ".">>)
    /\ ticker_info = Info("no_price")
    /\ is_valid = Bool(FALSE)
    /\ shown = Display("error")

\* C14: in every pipeline run each of technical_score, fundamental_score,
\* sentiment_score and overall_score, once computed, lies in [0, 10].
C14_ScoreSetInRange ==
    LET in_range(v) ==
            Tag(v) = "none" \/ (Tag(v) = "num" /\ v[2] >= 0 /\ v[2] <= D(1000))
    IN  /\ in_range(technical_score)
        /\ in_range(fundamental_score)
        /\ in_range(sentiment_score)
        /\ in_range(overall_score)

\* an empty price series, the best fundamentals (11.0 before the clamp) and
\* the most negative news: 0.4 * 0 + 0.4 * 10 + 0.2 * 0
C14_Witness ==
    /\ pc = "done"
    /\ IsEmpty(stock_data)
    /\ technical_score = Num(0)
    /\ fundamental_data = Dict(BestFund)
    /\ fundamental_score = Num(D(1000))
    /\ sentiment_score = Num(0)
    /\ overall_score = Num(D(400))

\* C23: in a call of get_investment_advice at most one override fires:
\* the BUY line needs average_sentiment > 0.1 and the SELL line needs
\* average_sentiment < -0.1, so the rationale never has both lines, and a
\* recommendation set to BUY by the first override is not turned into
\* SELL by the second.
C23_AtMostOneOverride ==
    AdviceReturned =>
        /\ ~(InRationale(BuyLine) /\ InRationale(SellLine))
        /\ InRationale(BuyLine) =>
              (Truthy(news_sentiment) /\ ArgAvg > D(10) /\ Recommendation = "BUY")
        /\ InRationale(SellLine) =>
              (Truthy(news_sentiment) /\ ArgAvg < -D(10) /\ Recommendation = "SELL")

\* oversold near support and overbought near resistance at once, with
\* positive news: only the BUY override fires
C23_Witness ==
    /\ AdviceReturned
    /\ ArgFlag("is_oversold") /\ ArgFlag("near_support")
    /\ ArgFlag("is_overbought") /\ ArgFlag("near_resistance")
    /\ Truthy(fundamental_data)
    /\ Truthy(news_sentiment) /\ ArgAvg = D(11)
    /\ overall_score = Num(0)
    /\ InRationale(BuyLine)
    /\ ~InRationale(SellLine)
    /\ Recommendation = "BUY"

(***************************************************************************)
(* The five functions called again and again on the same arguments         *)
(***************************************************************************)
MaxCalls == 3

\* the arguments: variables that hold what the callers pass
RepeatTech == { Dict(EmptyTech), calculate_technical_indicators(Frame(FullBars)) }
RepeatFund == { Dict(AllNoneFund), Dict(BestFund) }
RepeatNews ==
    { List(<<>>), List(<<Article(D(50)), Article(-D(5))>>),
      List(<<Article(D(50)), [Article(D(50)) EXCEPT !.description = Absent]>>) }
RepeatSummaries == { analyze_sentiment(List(<<>>)), analyze_sentiment(List(<<Article(D(100))>>)) }
RepeatScores == { <<D(500), D(500), D(525)>>, <<D(975), D(1000), D(0)>> }
RepeatOverall == { Num(D(750)), Num(D(400)) }

\* object identities: no list, the list passed as news_articles, and the
\* list that evaluating a list display [] creates
NoList == <<"no_list">>
InputList == <<"list_object", 0>>
\* one list object created when the module is loaded
NewListReused(log) == <<"list_object", 1>>

NewList(log) == <<"list_object", Len(log) + 1>>

Call(fn, result) ==
    [fn |-> fn, result |-> result,
     list |-> IF Tag(result) = "dict" THEN NewList(calls) ELSE NoList]

Returned(fn, result) ==
    /\ pc = "call"
    /\ Len(calls) < MaxCalls
    /\ calls' = Append(calls, Call(fn, result))
    /\ UNCHANGED <<pc, technical_indicators, fundamental_data, news_articles,
                   news_sentiment, technical_score, fundamental_score,
                   sentiment_score, overall_score, advice, stock_data, form>>

CallAnalyzeTechnical ==
    Returned("analyze_technical", analyze_technical(technical_indicators))

CallAnalyzeFundamental ==
    Returned("analyze_fundamental", analyze_fundamental(fundamental_data))

CallAnalyzeSentiment ==
    Returned("analyze_sentiment", analyze_sentiment(news_articles))

\* round() is a function of its argument: on a tie the direction the float
\* arithmetic gave for these arguments before is the one it gives again
CallCalculateOverallScore ==
    \E tie_up \in BOOLEAN :
        LET result == calculate_overall_score(technical_score, fundamental_score,
                                              sentiment_score, tie_up)
        IN  /\ \A i \in 1..Len(calls) :
                  calls[i].fn = "calculate_overall_score" => calls[i].result = result
            /\ Returned("calculate_overall_score", result)

CallGetInvestmentAdvice ==
    Returned("get_investment_advice",
             get_investment_advice(overall_score, technical_indicators,
                                   fundamental_data, news_sentiment))

InitRepeat ==
    /\ pc = "call"
    /\ technical_indicators \in RepeatTech
    /\ fundamental_data \in RepeatFund
    /\ news_articles \in RepeatNews
    /\ news_sentiment \in RepeatSummaries
    /\ \E s \in RepeatScores :
          /\ technical_score = Num(s[1])
          /\ fundamental_score = Num(s[2])
          /\ sentiment_score = Num(s[3])
    /\ overall_score \in RepeatOverall
    /\ advice = None
    /\ stock_data = None
    /\ NoForm
    /\ calls = <<>>

NextRepeat ==
    \/ CallAnalyzeTechnical
    \/ CallAnalyzeFundamental
    \/ CallAnalyzeSentiment
    \/ CallCalculateOverallScore
    \/ CallGetInvestmentAdvice

SpecRepeat == InitRepeat /\ [][NextRepeat]_vars

\* the arguments of the five functions
Arguments ==
    <<technical_indicators, fundamental_data, news_articles, news_sentiment,
      technical_score, fundamental_score, sentiment_score, overall_score>>

\* what a function returns depends on its arguments alone, and every list
\* in a result is an object of its own
CallsIndependent ==
    \A i \in 1..Len(calls) :
        /\ calls[i].fn = "analyze_technical" =>
              calls[i].result = analyze_technical(technical_indicators)
        /\ calls[i].fn = "analyze_fundamental" =>
              calls[i].result = analyze_fundamental(fundamental_data)
        /\ calls[i].fn = "analyze_sentiment" =>
              calls[i].result = analyze_sentiment(news_articles)
        /\ calls[i].fn = "calculate_overall_score" =>
              \E tie_up \in BOOLEAN :
                  calls[i].result = calculate_overall_score(technical_score,
                                        fundamental_score, sentiment_score, tie_up)
        /\ calls[i].fn = "get_investment_advice" =>
              calls[i].result = get_investment_advice(overall_score,
                                    technical_indicators, fundamental_data,
                                    news_sentiment)
        /\ calls[i].fn \in {"analyze_sentiment", "get_investment_advice"} =>
              (calls[i].list # NoList /\ calls[i].list # InputList)
        /\ \A j \in 1..Len(calls) :
              /\ calls[j].fn = calls[i].fn => calls[j].result = calls[i].result
              /\ (j # i /\ calls[i].list # NoList) => calls[j].list # calls[i].list

StageRank ==
    [form |-> 0, error |-> 1, get_stock_data |-> 1, get_fundamental_data |-> 2,
     indicators |-> 3, get_news |-> 4, sentiment |-> 5, technical |-> 6,
     fundamental |-> 7, sentiment_score |-> 8, overall |-> 9, advice |-> 10,
     exception |-> 11, render |-> 11, done |-> 12]

IsSet(v) == Tag(v) # "none"
FetchesCompleted == IsSet(stock_data) /\ IsSet(fundamental_data) /\ IsSet(news_articles)
SubScoresExist ==
    IsSet(technical_score) /\ IsSet(fundamental_score) /\ IsSet(sentiment_score)

\* the stages stand in the order of the script
StagesOrdered ==
    /\ (\/ pc \in {"sentiment", "technical", "fundamental"}
        \/ IsSet(news_sentiment) \/ IsSet(technical_score)
        \/ IsSet(fundamental_score) \/ IsSet(sentiment_score)) => FetchesCompleted
    /\ IsSet(technical_indicators) => IsSet(stock_data)
    /\ IsSet(technical_score) => IsSet(technical_indicators)
    /\ IsSet(sentiment_score) => IsSet(news_sentiment)
    /\ (pc = "overall" \/ IsSet(overall_score)) => SubScoresExist
    /\ (pc = "advice" \/ IsSet(advice)) => IsSet(overall_score)
    /\ pc \in {"render", "exception"} => IsSet(advice)
    /\ (pc = "done" /\ is_valid = Bool(TRUE)) =>
          (FetchesCompleted /\ SubScoresExist /\ IsSet(overall_score) /\ IsSet(advice))
    /\ pc \notin {"form", "error", "done"} => (Submitted /\ is_valid = Bool(TRUE))

\* what the stages produce
Outputs ==
    <<stock_data, fundamental_data, technical_indicators, news_articles,
      news_sentiment, technical_score, fundamental_score, sentiment_score,
      overall_score, advice, is_valid>>

\* a step moves the script forward and leaves what a stage produced as it is
StageRunsOnce ==
    /\ StageRank[pc'] > StageRank[pc]
    /\ ticker_input' = ticker_input /\ submit_button' = submit_button
    /\ \A i \in 1..Len(Outputs) : IsSet(Outputs[i]) => Outputs'[i] = Outputs[i]

C24_EmptyIndicatorsNeverBuy ==
    /\ (Tag(technical_indicators) = "dict" /\ ~Truthy(technical_indicators)) =>
          /\ Tag(technical_score) = "num" => technical_score = Num(0)
          /\ Tag(overall_score) = "num" => overall_score[2] <= D(600)
          /\ Tag(advice) = "dict" =>
                (/\ advice[2].recommendation # "BUY"
                 /\ \A i \in 1..Len(advice[2].rationale) :
                       advice[2].rationale[i] \notin {BuyLine, SellLine})

\* a series too short for the long moving average, the best fundamentals
\* and the most positive news: 0.4 * 0 + 0.4 * 10 + 0.2 * 10 gives HOLD
C24_Witness ==
    /\ pc = "done"
    /\ stock_data = Frame([FullBars EXCEPT !["ma_long"] = None])
    /\ ~Truthy(technical_indicators)
    /\ fundamental_score = Num(D(1000))
    /\ sentiment_score = Num(D(1000))
    /\ overall_score = Num(D(600))
    /\ Tag(advice) = "dict"
    /\ advice[2].recommendation = "HOLD"

\* C26: with technical indicators supplied the rationale has the oversold
\* line exactly when rsi <= 30 and the overbought line exactly when
\* rsi >= 70, while is_oversold / is_overbought and the +1.0 / -1.0 of the
\* Technical Scorer hold exactly when rsi < 30 / rsi > 70: at rsi 30 (70)
\* the line is there although the flag is false and nothing was added, and
\* at every other rsi the line, the flag and the adjustment agree.
C26_RsiBoundaries ==
    (/\ Tag(advice) = "dict"
     /\ Truthy(technical_indicators)
     /\ Tag(technical_indicators[2].rsi) = "num"
     /\ Tag(technical_indicators[2].recent_performance) = "num") =>
        LET ti == technical_indicators[2]
            rsi == ti.rsi[2]
            line(text) == \E i \in 1..Len(advice[2].rationale) :
                             advice[2].rationale[i] = text
            oversold_line == line("RSI indicates oversold conditions.")
            overbought_line == line("RSI indicates overbought conditions.")
            without_rsi == TechnicalSum(Dict([ti EXCEPT !["rsi"] = Absent]))
            adjustment == technical_score[2] - without_rsi
        IN  /\ oversold_line <=> rsi <= D(3000)
            /\ overbought_line <=> rsi >= D(7000)
            /\ ti.is_oversold = Bool(rsi < D(3000))
            /\ ti.is_overbought = Bool(rsi > D(7000))
            /\ adjustment = D(100) <=> rsi < D(3000)
            /\ adjustment = -D(100) <=> rsi > D(7000)
            /\ adjustment \in {-D(100), 0, D(100)}
            /\ rsi = D(3000) =>
                  (oversold_line /\ ti.is_oversold = Bool(FALSE) /\ adjustment = 0)
            /\ rsi = D(7000) =>
                  (overbought_line /\ ti.is_overbought = Bool(FALSE) /\ adjustment = 0)
            /\ rsi \notin {D(3000), D(7000)} =>
                  /\ oversold_line <=> ti.is_oversold = Bool(TRUE)
                  /\ oversold_line <=> adjustment = D(100)
                  /\ overbought_line <=> ti.is_overbought = Bool(TRUE)
                  /\ overbought_line <=> adjustment = -D(100)

\* rsi exactly 30: the rationale says oversold, the flag is false
C26_Witness ==
    /\ pc = "done"
    /\ Tag(advice) = "dict"
    /\ Truthy(technical_indicators)
    /\ technical_indicators[2].rsi = Num(D(3000))
    /\ technical_indicators[2].is_oversold = Bool(FALSE)
    /\ advice[2].rationale[2] = "RSI indicates oversold conditions."
    /\ technical_score[2] =
         TechnicalSum(Dict([technical_indicators[2] EXCEPT !["rsi"] = Absent]))

\* C8: when the technical indicators, the fundamental data or the news
\* sentiment are missing or empty, the recommendation is the base
\* recommendation of the score and the rationale has neither override line.
C8_NoOverrideWithoutData ==
    (AdviceReturned /\ (\/ ~Truthy(technical_indicators)
                        \/ ~Truthy(fundamental_data)
                        \/ ~Truthy(news_sentiment))) =>
        /\ Recommendation = BaseRecommendation(overall_score[2])
        /\ NoOverrideLine

\* oversold near support, but no fundamental data: the SELL of the score stays
C8_Witness ==
    /\ AdviceReturned
    /\ ArgFlag("is_oversold") /\ ArgFlag("near_support")
    /\ Truthy(news_sentiment) /\ ArgAvg > D(10)
    /\ ~Truthy(fundamental_data)
    /\ overall_score = Num(0)
    /\ Recommendation = "SELL"
    /\ NoOverrideLine

====
